---- MODULE Spec2Model ----
(***************************************************************************)
(* The layer map of libs/layer_map/src/lib.rs: one writer (ReadWriter)     *)
(* that puts deltas into the open in-memory layer and flushes it, and      *)
(* readers (Reader) that wait on the LSN gate and then read the in-memory  *)
(* layer and the historic set.                                             *)
(*                                                                         *)
(* The generic code of lib.rs is modelled as written.  The in-memory layer *)
(* and the historic set are the ones of the tests module (put, get,        *)
(* make_historic, get_reconstruct_path).  Three parts have no code in the  *)
(* source files and follow the written specification: the LSN gate         *)
(* (utils::seqwait: advance, wait_for), InMemoryLayer::freeze (a todo!()   *)
(* stub in the tests module) and the LayerFull threshold (the tests'       *)
(* layer never reports LayerFull).                                         *)
(***************************************************************************)
EXTENDS Integers, Sequences, FiniteSets, TLC

\* Bound of the model: LSNs used as arguments are 1..MaxLsn.
MaxLsn == 2

\* Size threshold of an in-memory layer, in records: a parameter of the layer
\* (specification 4.2, LayerFull; 8, scenario 3).
LayerCapacity == 3

\* The LSNs at which a layer map is constructed.
InitLsns == {0, 1}

Keys == {0, 1}
Lsns == 1..MaxLsn
Deltas == {"a", "b"}
\* The reader tasks.  Calls of Reader::get meet each other only at the mutex
\* of the in-memory slot, as they meet the writer.
Readers == {"r1"}
Cells == Keys \X Lsns

\* An absent BTreeMap entry.
NoDelta == "none"

\* Option<T>: None is <<>>, Some(x) is <<x>>.
None == <<>>
Some(x) == <<x>>
IsSome(o) == o # <<>>
Unwrap(o) == o[1]

VARIABLES
    cnt,        \* the LsnCounter published by the gate
    inmem,      \* State.inmem: Option<InMemoryLayer> of the published State
    historic,   \* State.historic of the published State
    holder,     \* who holds the State.inmem mutex: "free" or a reader
    poisoned,   \* the std::sync::Mutex was poisoned by a panic under the guard
    rw,         \* outcome of the writer's last call; a panic ends the writer
    rd,         \* per reader: position in Reader::get, arguments, whether
                \* wait_for suspended, and the ReconstructWork returned
    accepted    \* history: the (key, lsn, delta) whose put returned Ok

vars == <<cnt, inmem, historic, holder, poisoned, rw, rd, accepted>>

\* One layer handle, LayerE of pageserver/src/tenant/storage_layer.rs, with
\* its local file, its DownloadedLayer objects and the tasks that work on it.
VARIABLES
    inner,          \* LayerE.inner: Option<ResidentOrWantedEvicted>
    inner_guard,    \* who holds the tokio Mutex of inner: "free" or a task
    wanted_garbage_collected,
    wanted_evicted,
    version,
    have_remote_client,
    treat_error_as_warn,  \* conf.ondemand_download_behavior_treat_error_as_warn
    timeline_alive, \* LayerE.timeline, a Weak<Timeline>, still upgrades
    file,           \* the metadata of the local layer file, None when
                    \* there is no file
    downloaded,     \* per DownloadedLayer: its life and the number of strong
                    \* references held outside the slot
    evictions,      \* the spawned eviction tasks: captured version, position
    gd,             \* per caller of get_or_download: position, last result
    downloads,      \* the running download tasks, by who awaits them
    deletions,      \* calls of schedule_layer_file_deletion so far
    in_layer_map,   \* the layer map still holds its Arc<LayerE>
    layer_dropped   \* Drop for LayerE has run

layer_vars ==
    <<inner, inner_guard, wanted_garbage_collected, wanted_evicted, version,
      have_remote_client, treat_error_as_warn, timeline_alive, file,
      downloaded, evictions, gd, downloads, deletions, in_layer_map,
      layer_dropped>>

\* One tenant of pageserver/src/tenant.rs: its timelines map, the files of
\* its timelines directory and the tasks that create timelines.
VARIABLES
    timelines,      \* Tenant.timelines: per timeline id the state of the
                    \* Timeline in the map, "absent" when there is none
    uninit_mark,    \* per timeline id: the uninit mark file exists
    timeline_dir,   \* per timeline id: the timeline directory and the
                    \* metadata file in it
    creating,       \* per task of create_timeline: position, arguments and
                    \* the result of its last call
    tenant_state,   \* the process and the tenant: "Active", "Stopped" (the
                    \* process is down), "Loading", "Broken"
    tl_ancestor,    \* per timeline id: get_ancestor_timeline_id() and
                    \* get_ancestor_lsn() of the Timeline in the map
    gc_cs,          \* who holds Tenant.gc_cs: "free", a task of
                    \* create_timeline or "gc"
    gc_info,        \* per timeline id: Timeline.gc_info of the Timeline in
                    \* the map: retain_lsns, horizon_cutoff, pitr_cutoff
    latest_gc_cutoff,  \* per timeline id: latest_gc_cutoff_lsn of the
                    \* Timeline in the map
    gc,             \* the task of gc_iteration: position, target, the
                    \* branch points it collected
    deleting,       \* per task of timeline deletion: position, timeline
                    \* id, result of its last call
    delete_lock     \* per timeline id: who holds Timeline.delete_lock

\* What the steps of creation, stop and load leave alone.
gc_vars == <<gc_info, latest_gc_cutoff, gc>>

tenant_vars ==
    <<timelines, uninit_mark, timeline_dir, creating, tenant_state,
      tl_ancestor, gc_cs, gc_info, latest_gc_cutoff, gc, deleting,
      delete_lock>>

\* The state of one tenant of pageserver/src/tenant.rs and the tasks that
\* change it.
VARIABLES
    state,          \* Tenant.state, the value of the watch channel
    startup,        \* the task of spawn_load or spawn_attach: its position
    stoppers,       \* per caller of set_stopping: position, the state it
                    \* was called in, the result of its last call
    breakers,       \* per caller of set_broken: the same
    testing,        \* cfg!(feature = "testing") of the build
    timeline_state  \* TimelineState of a timeline of the tenant

state_vars == <<state, startup, stoppers, breakers, testing, timeline_state>>

\* tree_sort_timelines of pageserver/src/tenant.rs, applied to one input.
VARIABLES
    sort_input,     \* the timelines in the order the HashMap yields them:
                    \* a sequence of (timeline id, ancestor)
    sort_result     \* the value returned, once it has returned

sort_vars == <<sort_input, sort_result>>

\* merge_local_remote_metadata of pageserver/src/tenant.rs, applied to one
\* input.
VARIABLES
    merge_input,    \* the local and the remote metadata, each optional
    merge_result    \* the value returned, once it has returned

merge_vars == <<merge_input, merge_result>>

function_vars == <<sort_vars, merge_vars>>

\* The clock of safekeeper/src/sim/time.rs.
VARIABLES
    current_time,   \* Timing.current_time
    timers,         \* Timing.timers: the Pending of the heap, each with the
                    \* place of its schedule call among all schedule calls
    nonce,          \* Timing.nonce, a u32 kept as two halves of 16 bits
    overflow_checks,  \* the build panics on integer overflow
    scheduled,      \* the number of schedule calls made
    step_result     \* what the last call of step or schedule did

time_vars ==
    <<current_time, timers, nonce, overflow_checks, scheduled, step_result>>

\* The locks of one tenant of pageserver/src/tenant.rs and the tasks that
\* take them.
VARIABLES
    lock_holder,    \* per lock: the task that holds it, or "free"
    lock_pc         \* per task: the number of lock operations it has done

lock_vars == <<lock_holder, lock_pc>>

\* The variables that the layer map does not touch.
outside_layer_map ==
    <<layer_vars, tenant_vars, state_vars, function_vars, time_vars, lock_vars>>

\* The variables that the layer handle does not touch.
outside_layer ==
    <<vars, tenant_vars, state_vars, function_vars, time_vars, lock_vars>>

\* The variables that the tenant's timeline creation does not touch.
outside_tenant ==
    <<vars, layer_vars, state_vars, function_vars, time_vars, lock_vars>>

\* The variables that the changes of the tenant's state do not touch.
outside_state ==
    <<vars, layer_vars, tenant_vars, function_vars, time_vars, lock_vars>>

\* The variables that tree_sort_timelines does not touch.
outside_sort ==
    <<vars, layer_vars, tenant_vars, state_vars, merge_vars, time_vars, lock_vars>>

\* The variables that merge_local_remote_metadata does not touch.
outside_merge ==
    <<vars, layer_vars, tenant_vars, state_vars, sort_vars, time_vars, lock_vars>>

\* The variables that the clock does not touch.
outside_time ==
    <<vars, layer_vars, tenant_vars, state_vars, sort_vars, merge_vars, lock_vars>>

\* The variables that the locks of the tenant do not touch.
outside_locks ==
    <<vars, layer_vars, tenant_vars, state_vars, sort_vars, merge_vars, time_vars>>

----------------------------------------------------------------------------
(* tests::InMemoryLayer *)

EmptyRecords == [c \in Cells |-> NoDelta]

\* InMemoryLayer::default()
DefaultLayer == [frozen |-> FALSE, by_key |-> EmptyRecords]

RecordCount(l) == Cardinality({c \in Cells : l.by_key[c] # NoDelta})

\* The size threshold is exceeded: the next put reports LayerFull.
IsFull(l) == RecordCount(l) >= LayerCapacity

\* InMemoryLayer::put.  The order Frozen, LayerFull, duplicate is the order
\* in which the specification lists the errors.
InMemPut(l, key, lsn, delta) ==
    IF l.frozen
    THEN [res |-> "Frozen", layer |-> l]
    ELSE IF IsFull(l)
    THEN [res |-> "LayerFull", layer |-> l]
    ELSE IF l.by_key[<<key, lsn>>] # NoDelta
    THEN [res |-> "AlreadyHaveRecordForKeyAndLsn", layer |-> l]
    ELSE [res |-> "Ok", layer |-> [l EXCEPT !.by_key[<<key, lsn>>] = delta]]

\* by_key.range(..=lsn).rev(): the values at lsn, lsn-1, ..., 1.
RECURSIVE RangeRev(_, _, _)
RangeRev(m, key, lsn) ==
    IF lsn <= 0
    THEN <<>>
    ELSE (IF lsn \in Lsns /\ m[<<key, lsn>>] # NoDelta
          THEN <<m[<<key, lsn>>]>>
          ELSE <<>>) \o RangeRev(m, key, lsn - 1)

\* InMemoryLayer::get with range(..) in place of range(..=lsn).
InMemGet_Unbounded(l, key, lsn) == RangeRev(l.by_key, key, MaxLsn)

\* InMemoryLayer::get
InMemGet(l, key, lsn) == RangeRev(l.by_key, key, lsn)

\* InMemoryLayer::freeze: idempotent, transitions to Frozen.
Freeze(l) == [l EXCEPT !.frozen = TRUE]

----------------------------------------------------------------------------
(* tests::LayerMap, the HistoricStuff *)

EmptyHistoric == [c \in Cells |-> None]

RECURSIVE PathRev(_, _, _)
PathRev(h, key, lsn) ==
    IF lsn <= 0
    THEN <<>>
    ELSE (IF lsn \in Lsns THEN h[<<key, lsn>>] ELSE <<>>)
         \o PathRev(h, key, lsn - 1)

\* LayerMap::get_reconstruct_path
GetReconstructPath(h, key, lsn) == PathRev(h, key, lsn)

\* LayerMap::make_historic: ok is FALSE when the assertion
\* "layers must not overlap" fails.
MakeHistoric(h, layer) ==
    [ok |-> \A c \in Cells : layer.by_key[c] # NoDelta => h[c] = None,
     historic |-> [c \in Cells |->
                     IF layer.by_key[c] # NoDelta THEN Some(layer) ELSE h[c]]]

----------------------------------------------------------------------------
(* The LSN gate *)

\* UsizeCounter::cnt_advance
CntAdvance(c, new_val) == new_val

\* UsizeCounter::cnt_value
CntValue(c) == c

\* advance(new_lsn, None).  Its precondition is new_lsn >= current; a call
\* that breaks it is outside the contract and has either outcome: the
\* counter is set, or the call is ignored.  Then the waiters whose target
\* is reached are woken.
AdvanceOutcomes(new_lsn) ==
    IF new_lsn >= CntValue(cnt) THEN {"set"} ELSE {"set", "ignored"}

\* wait_for(target_lsn) returns without suspending when the published LSN
\* has reached the target.
WaitForReady(target_lsn) == CntValue(cnt) >= target_lsn

Wake(readers, lsn) ==
    [r \in Readers |->
        IF readers[r].pc = "waiting" /\ readers[r].lsn <= lsn
        THEN [readers[r] EXCEPT !.pc = "woken"]
        ELSE readers[r]]

Advance(new_lsn) ==
    \E o \in AdvanceOutcomes(new_lsn) :
        /\ cnt' = IF o = "set" THEN CntAdvance(cnt, new_lsn) ELSE cnt
        /\ rd' = Wake(rd, cnt')

----------------------------------------------------------------------------
(* The writer: ReadWriter *)

Alive == rw \in {"new", "put:Ok", "force_flush:Ok"}

\* try_lock().expect(..) of put and force_flush
TryLockOk == holder = "free" /\ ~poisoned

\* inmem_guard.get_or_insert_with(|| T::InMemoryLayer::default())
GetOrInsert(slot) == IF IsSome(slot) THEN Unwrap(slot) ELSE DefaultLayer

Panic(site) == rw' = site

\* put or force_flush finds the mutex held by a reader: expect panics.
WriterTryLockFails ==
    /\ Alive
    /\ ~TryLockOk
    /\ Panic("panic:expect")
    /\ UNCHANGED <<cnt, inmem, historic, holder, poisoned, rd, accepted>>
    /\ UNCHANGED outside_layer_map

PutOk(key, lsn, delta) ==
    LET r == InMemPut(GetOrInsert(inmem), key, lsn, delta) IN
    /\ Alive /\ TryLockOk
    /\ r.res = "Ok"
    /\ inmem' = Some(r.layer)
    /\ Advance(lsn)
    /\ accepted' = accepted \cup {[key |-> key, lsn |-> lsn, delta |-> delta]}
    /\ rw' = "put:Ok"
    /\ UNCHANGED <<historic, holder, poisoned>>
    /\ UNCHANGED outside_layer_map

\* unreachable!(..) with the guard held: the mutex is poisoned.
PutFrozen(key, lsn, delta) ==
    LET r == InMemPut(GetOrInsert(inmem), key, lsn, delta) IN
    /\ Alive /\ TryLockOk
    /\ r.res = "Frozen"
    /\ inmem' = Some(r.layer)
    /\ poisoned' = TRUE
    /\ Panic("panic:unreachable")
    /\ UNCHANGED <<cnt, historic, holder, rd, accepted>>
    /\ UNCHANGED outside_layer_map

\* todo!("propagate error to caller") with the guard held.
PutDuplicate(key, lsn, delta) ==
    LET r == InMemPut(GetOrInsert(inmem), key, lsn, delta) IN
    /\ Alive /\ TryLockOk
    /\ r.res = "AlreadyHaveRecordForKeyAndLsn"
    /\ inmem' = Some(r.layer)
    /\ poisoned' = TRUE
    /\ Panic("panic:todo_duplicate")
    /\ UNCHANGED <<cnt, historic, holder, rd, accepted>>
    /\ UNCHANGED outside_layer_map

\* freeze, clone, drop the guard, then todo!("write out to disk ..."):
\* the rest of the branch (make_historic, advance) is never executed.
PutLayerFull(key, lsn, delta) ==
    LET r == InMemPut(GetOrInsert(inmem), key, lsn, delta) IN
    /\ Alive /\ TryLockOk
    /\ r.res = "LayerFull"
    /\ inmem' = Some(Freeze(r.layer))
    /\ Panic("panic:todo_write_out")
    /\ UNCHANGED <<cnt, historic, holder, poisoned, rd, accepted>>
    /\ UNCHANGED outside_layer_map

Put(key, lsn, delta) ==
    \/ PutOk(key, lsn, delta)
    \/ PutFrozen(key, lsn, delta)
    \/ PutDuplicate(key, lsn, delta)
    \/ PutLayerFull(key, lsn, delta)

\* force_flush with no open layer: nothing to do.
ForceFlushNothing ==
    /\ Alive /\ TryLockOk
    /\ ~IsSome(inmem)
    /\ rw' = "force_flush:Ok"
    /\ UNCHANGED <<cnt, inmem, historic, holder, poisoned, rd, accepted>>
    /\ UNCHANGED outside_layer_map

\* force_flush that takes the layer out of the slot (inmem_guard.take())
\* and, like force_flush, publishes nothing.
ForceFlushOpen_TakesLayer ==
    /\ Alive /\ TryLockOk
    /\ IsSome(inmem)
    /\ inmem' = None
    /\ rw' = "force_flush:Ok"
    /\ UNCHANGED <<cnt, historic, holder, poisoned, rd, accepted>>
    /\ UNCHANGED outside_layer_map

\* force_flush with an open layer: the layer is frozen in place, the new
\* historic set and the new State are built and dropped; nothing is
\* published.
ForceFlushOpen ==
    /\ Alive /\ TryLockOk
    /\ IsSome(inmem)
    /\ LET frozen == Freeze(Unwrap(inmem))
           mh == MakeHistoric(historic, frozen)
       IN /\ inmem' = Some(frozen)
          /\ IF mh.ok
             THEN /\ rw' = "force_flush:Ok"
                  /\ UNCHANGED poisoned
             ELSE /\ Panic("panic:overlap")
                  /\ poisoned' = TRUE
    /\ UNCHANGED <<cnt, historic, holder, rd, accepted>>
    /\ UNCHANGED outside_layer_map

ForceFlush == ForceFlushNothing \/ ForceFlushOpen

----------------------------------------------------------------------------
(* The readers: Reader::get *)

IdleReader ==
    [pc |-> "idle", key |-> 0, lsn |-> 0, suspended |-> FALSE,
     inmem_records |-> <<>>, historic_path |-> <<>>]

\* self.shared.wait_for(lsn): returns at once when the published LSN has
\* reached lsn, suspends otherwise.
GetCall(r, key, lsn) ==
    /\ rd[r].pc = "idle"
    /\ rd' = [rd EXCEPT ![r] =
                [IdleReader EXCEPT
                    !.pc = IF WaitForReady(lsn) THEN "woken" ELSE "waiting",
                    !.suspended = ~WaitForReady(lsn),
                    !.key = key, !.lsn = lsn]]
    /\ UNCHANGED <<cnt, inmem, historic, holder, poisoned, rw, accepted>>
    /\ UNCHANGED outside_layer_map

\* state.inmem.lock().unwrap(): blocks while the mutex is held, panics when
\* it is poisoned.
GetLock(r) ==
    /\ rd[r].pc = "woken"
    /\ holder = "free"
    /\ IF poisoned
       THEN /\ rd' = [rd EXCEPT ![r].pc = "panicked"]
            /\ UNCHANGED holder
       ELSE /\ rd' = [rd EXCEPT ![r].pc = "locked"]
            /\ holder' = r
    /\ UNCHANGED <<cnt, inmem, historic, poisoned, rw, accepted>>
    /\ UNCHANGED outside_layer_map

\* the read under the guard, the historic path, and the return of Ok.
GetRead(r) ==
    /\ rd[r].pc = "locked"
    /\ rd' = [rd EXCEPT ![r] =
                [@ EXCEPT
                    !.pc = "done",
                    !.inmem_records =
                        IF IsSome(inmem)
                        THEN InMemGet(Unwrap(inmem), rd[r].key, rd[r].lsn)
                        ELSE <<>>,
                    !.historic_path =
                        GetReconstructPath(historic, rd[r].key, rd[r].lsn)]]
    /\ holder' = "free"
    /\ UNCHANGED <<cnt, inmem, historic, poisoned, rw, accepted>>
    /\ UNCHANGED outside_layer_map

\* the caller drops the ReconstructWork; the reader is free for another get.
GetDone(r) ==
    /\ rd[r].pc = "done"
    /\ rd' = [rd EXCEPT ![r] = IdleReader]
    /\ UNCHANGED <<cnt, inmem, historic, holder, poisoned, rw, accepted>>
    /\ UNCHANGED outside_layer_map

----------------------------------------------------------------------------
(* The layer handle: LayerE, DownloadedLayer, ResidentLayer *)

\* Bound of the model: get_or_download raises version at most this often.
MaxVersion == 2

\* desc.file_size, and the lengths a local file can have.
FileSize == 2
FileLens == {1, 2}

\* std::fs::Metadata of a regular file, and of a directory
RegularFile(len) == Some([is_file |-> TRUE, len |-> len])
NotFile == Some([is_file |-> FALSE, len |-> 0])
IsRegularFile(f) == IsSome(f) /\ Unwrap(f).is_file

\* A DownloadedLayer is named by the version under which it was created:
\* for_written creates one under version 0, get_or_download creates at most
\* one after each fetch_add.
Objs == 0..MaxVersion

\* The tasks that call get_or_download, get or guard_against_eviction.
GTasks == {"g1", "g2"}

\* ctx of get_or_download: None, or a RequestContext with its
\* DownloadBehavior; "Get" is LayerE::get, the path of
\* guard_against_eviction(false).
Modes == {"NoCtx", "Download", "Warn", "Error", "Get"}

\* The strong references to one DownloadedLayer that callers hold at a
\* time: one for each task.
MaxRefs == Cardinality(GTasks)

Resident(d) == Some([kind |-> "Resident", d |-> d])
WantedEvicted(d) == Some([kind |-> "WantedEvicted", d |-> d])

NoObject == [st |-> "unborn", refs |-> 0]
IdleTask == [pc |-> "idle", res |-> "none", d |-> 0]

\* The strong count of a DownloadedLayer: the references outside the slot
\* and the one of a Resident slot.
StrongCount(slot, objs, d) ==
    objs[d].refs + (IF slot = Resident(d) THEN 1 ELSE 0)

\* ResidentOrWantedEvicted::get: the strong pointer, or the upgrade of the
\* weak one, which fails once the strong count has reached zero.
SlotGet(slot, objs) ==
    IF IsSome(slot) /\ objs[Unwrap(slot).d].st = "alive"
    THEN Some(Unwrap(slot).d)
    ELSE None

\* ResidentOrWantedEvicted::downgrade
Downgrade(slot) == WantedEvicted(Unwrap(slot).d)

\* is_file_present_and_good_size without the comparison of the length.
NeedsDownload_AnyLength(f) ==
    IF ~IsSome(f) THEN Some("NotFound")
    ELSE IF ~Unwrap(f).is_file THEN Some("NotFile")
    ELSE None

\* LayerE::is_file_present_and_good_size over the result of metadata():
\* None when nothing needs downloading.
NeedsDownload(f) ==
    IF ~IsSome(f) THEN Some("NotFound")
    ELSE IF ~Unwrap(f).is_file THEN Some("NotFile")
    ELSE IF Unwrap(f).len # FileSize THEN Some("WrongSize")
    ELSE None

\* Who holds an Arc<LayerE>: the layer map, a running call, a download
\* task, a ResidentLayer, a thread inside the drop of a DownloadedLayer,
\* an eviction task that upgraded its weak pointer.
LayerOwned ==
    \/ in_layer_map
    \/ \E t \in GTasks : gd[t].pc # "idle"
    \/ downloads # {}
    \/ \E d \in Objs : downloaded[d].refs > 0
                         \/ downloaded[d].st \in {"dropping", "spawning"}
    \/ \E e \in evictions : e.pc = "locked"

LayerUsable == ~layer_dropped

\* The layer handle before construction: the value of its variables in the
\* specifications of the other components.
NoLayer ==
    /\ inner = None
    /\ inner_guard = "free"
    /\ wanted_garbage_collected = FALSE
    /\ wanted_evicted = FALSE
    /\ version = 0
    /\ have_remote_client = FALSE
    /\ treat_error_as_warn = FALSE
    /\ timeline_alive = FALSE
    /\ file = None
    /\ downloaded = [d \in Objs |-> NoObject]
    /\ evictions = {}
    /\ gd = [t \in GTasks |-> IdleTask]
    /\ downloads = {}
    /\ deletions = 0
    /\ in_layer_map = FALSE
    /\ layer_dropped = FALSE

\* A caller can reach the handle: through the layer map or a ResidentLayer.
HandleAtHand ==
    /\ LayerUsable
    /\ in_layer_map \/ \E d \in Objs : downloaded[d].refs > 0

Return(t, res, d) ==
    /\ gd' = [gd EXCEPT ![t] = [pc |-> "idle", res |-> res, d |-> d]]
    /\ inner_guard' = "free"

\* self.inner.lock().await of get_or_download and of get
GLock(t) ==
    /\ HandleAtHand
    /\ gd[t].pc = "idle"
    /\ inner_guard = "free"
    /\ version < MaxVersion
    /\ \A d \in Objs : downloaded[d].refs < MaxRefs
    /\ gd' = [gd EXCEPT ![t] = [pc |-> "locked", res |-> "none", d |-> 0]]
    /\ inner_guard' = t
    /\ UNCHANGED <<inner, wanted_garbage_collected, wanted_evicted, version,
                   have_remote_client, treat_error_as_warn, timeline_alive,
                   file, downloaded, evictions, downloads, deletions,
                   in_layer_map, layer_dropped>>
    /\ UNCHANGED outside_layer

\* get_or_apply_evictedness found a live DownloadedLayer: it is returned,
\* and the slot is downgraded when wanted_evicted is set.
GReturnExisting(t, mode) ==
    /\ gd[t].pc = "locked"
    /\ IsSome(SlotGet(inner, downloaded))
    /\ LET d == Unwrap(SlotGet(inner, downloaded)) IN
        /\ downloaded' = [downloaded EXCEPT ![d].refs = @ + 1]
        /\ inner' = IF wanted_evicted THEN Downgrade(inner) ELSE inner
        /\ Return(t, "Ok:existing", d)
    /\ UNCHANGED <<wanted_garbage_collected, wanted_evicted, version,
                   have_remote_client, treat_error_as_warn, timeline_alive,
                   file, evictions, downloads, deletions, in_layer_map,
                   layer_dropped>>
    /\ UNCHANGED outside_layer

\* LayerE::get without a live DownloadedLayer: guard_against_eviction(false)
\* fails with "layer is not downloaded".
GNotDownloaded(t, mode) ==
    /\ gd[t].pc = "locked"
    /\ ~IsSome(SlotGet(inner, downloaded))
    /\ mode = "Get"
    /\ Return(t, "Err:not downloaded", 0)
    /\ UNCHANGED <<inner, wanted_garbage_collected, wanted_evicted, version,
                   have_remote_client, treat_error_as_warn, timeline_alive,
                   file, downloaded, evictions, downloads, deletions,
                   in_layer_map, layer_dropped>>
    /\ UNCHANGED outside_layer

\* really_error of get_or_download
ReallyError(mode) == mode = "Error" /\ ~treat_error_as_warn

\* The refusal placed after version.fetch_add, wanted_evicted.store(false)
\* and locked.take().
GRefuse_AfterTake(t, mode) ==
    /\ gd[t].pc = "locked"
    /\ ~IsSome(SlotGet(inner, downloaded))
    /\ ReallyError(mode)
    /\ version' = version + 1
    /\ wanted_evicted' = FALSE
    /\ inner' = None
    /\ Return(t, "Err:refused", 0)
    /\ UNCHANGED <<wanted_garbage_collected,
                   have_remote_client, treat_error_as_warn, timeline_alive,
                   file, downloaded, evictions, downloads, deletions,
                   in_layer_map, layer_dropped>>
    /\ UNCHANGED outside_layer

\* bail!("refusing to download layer ... due to RequestContext")
GRefuse(t, mode) ==
    /\ gd[t].pc = "locked"
    /\ ~IsSome(SlotGet(inner, downloaded))
    /\ ReallyError(mode)
    /\ Return(t, "Err:refused", 0)
    /\ UNCHANGED <<inner, wanted_garbage_collected, wanted_evicted, version,
                   have_remote_client, treat_error_as_warn, timeline_alive,
                   file, downloaded, evictions, downloads, deletions,
                   in_layer_map, layer_dropped>>
    /\ UNCHANGED outside_layer

\* The same without locked.take().
GTake_KeepsSlot(t, mode) ==
    /\ gd[t].pc = "locked"
    /\ ~IsSome(SlotGet(inner, downloaded))
    /\ mode # "Get"
    /\ ~ReallyError(mode)
    /\ version' = version + 1
    /\ wanted_evicted' = FALSE
    /\ IF timeline_alive
       THEN /\ gd' = [gd EXCEPT ![t].pc = "taken"]
            /\ UNCHANGED inner_guard
       ELSE Return(t, "Err:timeline has gone", 0)
    /\ UNCHANGED <<inner, wanted_garbage_collected,
                   have_remote_client, treat_error_as_warn, timeline_alive,
                   file, downloaded, evictions, downloads, deletions,
                   in_layer_map, layer_dropped>>
    /\ UNCHANGED outside_layer

\* version.fetch_add(1), wanted_evicted.store(false), locked.take(), and the
\* upgrade of the timeline; the next suspension is needs_download().await.
GTake(t, mode) ==
    /\ gd[t].pc = "locked"
    /\ ~IsSome(SlotGet(inner, downloaded))
    /\ mode # "Get"
    /\ ~ReallyError(mode)
    /\ version' = version + 1
    /\ wanted_evicted' = FALSE
    /\ inner' = None
    /\ IF timeline_alive
       THEN /\ gd' = [gd EXCEPT ![t].pc = "taken"]
            /\ UNCHANGED inner_guard
       ELSE Return(t, "Err:timeline has gone", 0)
    /\ UNCHANGED <<wanted_garbage_collected,
                   have_remote_client, treat_error_as_warn, timeline_alive,
                   file, downloaded, evictions, downloads, deletions,
                   in_layer_map, layer_dropped>>
    /\ UNCHANGED outside_layer

\* The step of get_or_download, or of get, from the taken lock to its
\* first suspension or its return.
GCheck(t, mode) ==
    \/ GReturnExisting(t, mode)
    \/ GNotDownloaded(t, mode)
    \/ GRefuse(t, mode)
    \/ GTake(t, mode)

\* Arc::new(DownloadedLayer { .. }), the write of the slot, and Ok(res).
Finish(t, res) ==
    LET d == version IN
    /\ downloaded' = [downloaded EXCEPT ![d] = [st |-> "alive", refs |-> 1]]
    /\ inner' = IF wanted_evicted THEN WantedEvicted(d) ELSE Resident(d)
    /\ Return(t, res, d)

\* needs_download() before any download: the file is good, or there is no
\* remote client, or the download task is spawned and rx is awaited.
GNeedsDownload(t) ==
    /\ gd[t].pc = "taken"
    /\ IF ~IsSome(NeedsDownload(file))
       THEN /\ Finish(t, "Ok:found")
            /\ UNCHANGED downloads
       ELSE IF ~have_remote_client
       THEN /\ Return(t, "Err:no remote timeline client", 0)
            /\ UNCHANGED <<inner, downloaded, downloads>>
       ELSE /\ gd' = [gd EXCEPT ![t].pc = "downloading"]
            /\ downloads' = downloads \cup {t}
            /\ UNCHANGED <<inner, inner_guard, downloaded>>
    /\ UNCHANGED <<wanted_garbage_collected, wanted_evicted, version,
                   have_remote_client, treat_error_as_warn, timeline_alive,
                   file, evictions, deletions, in_layer_map, layer_dropped>>
    /\ UNCHANGED outside_layer

\* What download_layer_file can end with: an error, or Ok with a local file
\* of some length.
DownloadOutcomes ==
    {[ok |-> FALSE, len |-> 0]} \cup {[ok |-> TRUE, len |-> l] : l \in FileLens}

\* The download task ends.  A waiting get_or_download then fails on the
\* closed channel, or repeats needs_download and fails or finishes.  A task
\* whose caller was cancelled only leaves its file.
DownloadDone(w, outcome) ==
    /\ w \in downloads
    /\ downloads' = downloads \ {w}
    /\ file' = IF outcome.ok THEN RegularFile(outcome.len) ELSE file
    /\ IF w \notin GTasks
       THEN UNCHANGED <<inner, inner_guard, downloaded, gd>>
       ELSE IF ~outcome.ok
       THEN /\ Return(w, "Err:downloading failed", 0)
            /\ UNCHANGED <<inner, downloaded>>
       ELSE IF IsSome(NeedsDownload(file'))
       THEN /\ Return(w, "Err:post-condition for downloading", 0)
            /\ UNCHANGED <<inner, downloaded>>
       ELSE Finish(w, "Ok:downloaded")
    /\ UNCHANGED <<wanted_garbage_collected, wanted_evicted, version,
                   have_remote_client, treat_error_as_warn, timeline_alive,
                   evictions, deletions, in_layer_map, layer_dropped>>
    /\ UNCHANGED outside_layer

\* The future of get_or_download is dropped at a suspension point after the
\* take: the guard is released; a spawned download task runs on.
GCancel(t) ==
    /\ gd[t].pc \in {"taken", "downloading"}
    /\ "orphan" \notin downloads
    /\ Return(t, "cancelled", 0)
    /\ downloads' = IF t \in downloads
                    THEN (downloads \ {t}) \cup {"orphan"}
                    ELSE downloads
    /\ UNCHANGED <<inner, wanted_garbage_collected, wanted_evicted, version,
                   have_remote_client, treat_error_as_warn, timeline_alive,
                   file, downloaded, evictions, deletions, in_layer_map,
                   layer_dropped>>
    /\ UNCHANGED outside_layer

\* The eviction task that on_drop spawns, with the version it loaded.
SpawnedEviction == [version |-> version, pc |-> "spawned"]

\* LayerE::on_drop: what it adds to the spawned eviction tasks.
OnDropSpawns(evict) ==
    IF wanted_garbage_collected
    THEN {}
    ELSE IF have_remote_client /\ evict
    THEN {SpawnedEviction}
    ELSE {}

\* evict while the mutex of inner is held: try_lock fails, Ok(false).
EvictBusy ==
    /\ HandleAtHand /\ have_remote_client
    /\ inner_guard # "free"
    /\ wanted_evicted' = TRUE
    /\ UNCHANGED <<inner, inner_guard, wanted_garbage_collected, version,
                   have_remote_client, treat_error_as_warn, timeline_alive,
                   file, downloaded, evictions, gd, downloads, deletions,
                   in_layer_map, layer_dropped>>
    /\ UNCHANGED outside_layer

\* evict with the mutex free: the slot is downgraded.  When the slot held
\* the last strong reference the DownloadedLayer is dropped under the guard
\* and on_drop runs before evict returns.
EvictHere ==
    /\ HandleAtHand /\ have_remote_client
    /\ inner_guard = "free"
    /\ wanted_evicted' = TRUE
    /\ IF IsSome(inner)
       THEN LET d == Unwrap(inner).d
                last == downloaded[d].st = "alive"
                        /\ StrongCount(inner, downloaded, d) = 1
                        /\ inner = Resident(d)
            IN /\ inner' = Downgrade(inner)
               /\ downloaded' = IF last
                                THEN [downloaded EXCEPT ![d].st = "dead"]
                                ELSE downloaded
               /\ evictions' = IF last
                               THEN evictions \cup OnDropSpawns(TRUE)
                               ELSE evictions
       ELSE UNCHANGED <<inner, downloaded, evictions>>
    /\ UNCHANGED <<inner_guard, wanted_garbage_collected, version,
                   have_remote_client, treat_error_as_warn, timeline_alive,
                   file, gd, downloads, deletions, in_layer_map,
                   layer_dropped>>
    /\ UNCHANGED outside_layer

Evict == EvictBusy \/ EvictHere

\* A strong reference outside the slot is dropped.  When it was the last
\* one the strong count is zero from here on, and Drop for DownloadedLayer
\* has begun on the dropping thread.
DropResident(d) ==
    /\ downloaded[d].refs > 0
    /\ downloaded' =
         [downloaded EXCEPT ![d] =
            [st |-> IF StrongCount(inner, downloaded, d) = 1
                    THEN "dropping" ELSE @.st,
             refs |-> @.refs - 1]]
    /\ UNCHANGED <<inner, inner_guard, wanted_garbage_collected,
                   wanted_evicted, version, have_remote_client,
                   treat_error_as_warn, timeline_alive, file, evictions, gd,
                   downloads, deletions, in_layer_map, layer_dropped>>
    /\ UNCHANGED outside_layer

\* Drop for DownloadedLayer reaches LayerE::on_drop, which loads the two
\* flags.  The version is loaded by a later instruction, and no lock is
\* held in between.
OnDrop(d) ==
    /\ downloaded[d].st = "dropping"
    /\ downloaded' =
         [downloaded EXCEPT ![d].st =
            IF OnDropSpawns(wanted_evicted) = {} THEN "dead" ELSE "spawning"]
    /\ UNCHANGED <<inner, inner_guard, wanted_garbage_collected,
                   wanted_evicted, version, have_remote_client,
                   treat_error_as_warn, timeline_alive, file, evictions, gd,
                   downloads, deletions, in_layer_map, layer_dropped>>
    /\ UNCHANGED outside_layer

\* LayerE::on_drop, having found wanted_evicted set, loads the version and
\* spawns the eviction task.
OnDropSpawn(d) ==
    /\ downloaded[d].st = "spawning"
    /\ downloaded' = [downloaded EXCEPT ![d].st = "dead"]
    /\ evictions' = evictions \cup {SpawnedEviction}
    /\ UNCHANGED <<inner, inner_guard, wanted_garbage_collected,
                   wanted_evicted, version, have_remote_client,
                   treat_error_as_warn, timeline_alive, file, gd, downloads,
                   deletions, in_layer_map, layer_dropped>>
    /\ UNCHANGED outside_layer

\* The eviction task starts: it ends at once when the layer or the timeline
\* is gone, else it takes the mutex of inner.
EvictionLock(e) ==
    /\ e \in evictions /\ e.pc = "spawned"
    /\ IF layer_dropped \/ ~timeline_alive
       THEN /\ evictions' = evictions \ {e}
            /\ UNCHANGED inner_guard
       ELSE /\ inner_guard = "free"
            /\ inner_guard' = "eviction"
            /\ evictions' = (evictions \ {e}) \cup {[e EXCEPT !.pc = "locked"]}
    /\ UNCHANGED <<inner, wanted_garbage_collected, wanted_evicted, version,
                   have_remote_client, treat_error_as_warn, timeline_alive,
                   file, downloaded, gd, downloads, deletions, in_layer_map,
                   layer_dropped>>
    /\ UNCHANGED outside_layer

\* std::fs::remove_file on the local path
RemoveFile(f) == IF IsRegularFile(f) THEN None ELSE f

\* The eviction task under the guard: the version check, the take of the
\* slot with its assertion, the check of wanted_evicted, and the removal of
\* the file.  A Resident slot fails the assertion: the task panics, the
\* taken strong reference is dropped in the unwinding.
EvictionRun(e) ==
    /\ e \in evictions /\ e.pc = "locked"
    /\ evictions' = evictions \ {e}
    /\ inner_guard' = "free"
    /\ IF e.version # version
       THEN UNCHANGED <<inner, file, downloaded>>
       ELSE /\ inner' = None
            /\ IF IsSome(inner) /\ Unwrap(inner).kind = "Resident"
               THEN /\ downloaded' =
                        [downloaded EXCEPT ![Unwrap(inner).d].st =
                            IF downloaded[Unwrap(inner).d].refs = 0
                            THEN "dropping" ELSE @]
                    /\ UNCHANGED file
               ELSE /\ file' = IF wanted_evicted THEN RemoveFile(file) ELSE file
                    /\ UNCHANGED downloaded
    /\ UNCHANGED <<wanted_garbage_collected, wanted_evicted, version,
                   have_remote_client, treat_error_as_warn, timeline_alive,
                   gd, downloads, deletions, in_layer_map, layer_dropped>>
    /\ UNCHANGED outside_layer

\* LayerE::garbage_collect
GarbageCollect ==
    /\ HandleAtHand
    /\ ~wanted_garbage_collected
    /\ wanted_garbage_collected' = TRUE
    /\ UNCHANGED <<inner, inner_guard, wanted_evicted, version,
                   have_remote_client, treat_error_as_warn, timeline_alive,
                   file, downloaded, evictions, gd, downloads, deletions,
                   in_layer_map, layer_dropped>>
    /\ UNCHANGED outside_layer

\* The layer map gives up its Arc<LayerE>.
RemoveFromLayerMap ==
    /\ in_layer_map
    /\ in_layer_map' = FALSE
    /\ UNCHANGED <<inner, inner_guard, wanted_garbage_collected,
                   wanted_evicted, version, have_remote_client,
                   treat_error_as_warn, timeline_alive, file, downloaded,
                   evictions, gd, downloads, deletions, layer_dropped>>
    /\ UNCHANGED outside_layer

----------------------------------------------------------------------------
(* The tenant: creation of timelines, restart and load *)

\* The timeline ids of the tenant and the tasks of create_timeline.
TimelineIds == {"t1", "t2"}
CTasks == {"c1", "c2"}

\* The tasks of timeline deletion; where the deletions come one after the
\* other there is only the first.
DTasks == {"d1", "d2"}
OneDeleter == "d1"

\* TimelineMetadata::ancestor_timeline(): an id, or none.
NoAncestor == "none"
Ancestors == TimelineIds \cup {NoAncestor}

\* The LSNs of branch points and of GC cutoffs.
BranchLsns == {0, 1}

\* A Timeline without ancestor, and one branched off anc at lsn.
Root == [id |-> NoAncestor, lsn |-> 0]
BranchOf(anc, lsn) == [id |-> anc, lsn |-> lsn]

\* GcInfo of a new Timeline.
NoGcInfo == [retain_lsns |-> {}, horizon_cutoff |-> 0, pitr_cutoff |-> 0]

\* The timeline directory of an id: absent, created without the metadata
\* file, or with the metadata file, which names the ancestor.
\* The metadata file holds the ancestor, the branch point (ancestor_lsn)
\* and latest_gc_cutoff_lsn.
NoDir ==
    [exists |-> FALSE, metadata |-> FALSE, ancestor |-> NoAncestor,
     ancestor_lsn |-> 0, latest_gc_cutoff |-> 0]
EmptyDir ==
    [exists |-> TRUE, metadata |-> FALSE, ancestor |-> NoAncestor,
     ancestor_lsn |-> 0, latest_gc_cutoff |-> 0]
WithMetadata(anc, lsn, cutoff) ==
    [exists |-> TRUE, metadata |-> TRUE, ancestor |-> anc,
     ancestor_lsn |-> lsn, latest_gc_cutoff |-> cutoff]

\* A task of create_timeline: its arguments, and the latest_gc_cutoff_lsn
\* of the source that branch_timeline_impl read.
IdleCreate ==
    [pc |-> "idle", id |-> "none", ancestor |-> NoAncestor, start_lsn |-> 0,
     src_cutoff |-> 0, res |-> "none"]

IdleGc == [pc |-> "idle", target |-> "none", branchpoints |-> {}]
IdleDelete == [pc |-> "idle", id |-> "none", res |-> "none"]

\* The tenant before construction: the value of its variables in the
\* specifications of the other components.
NoTenant ==
    /\ timelines = [id \in TimelineIds |-> "absent"]
    /\ uninit_mark = [id \in TimelineIds |-> FALSE]
    /\ timeline_dir = [id \in TimelineIds |-> NoDir]
    /\ creating = [c \in CTasks |-> IdleCreate]
    /\ tenant_state = "Stopped"
    /\ tl_ancestor = [id \in TimelineIds |-> Root]
    /\ gc_cs = "free"
    /\ gc_info = [id \in TimelineIds |-> NoGcInfo]
    /\ latest_gc_cutoff = [id \in TimelineIds |-> 0]
    /\ gc = IdleGc
    /\ deleting = [d \in DTasks |-> IdleDelete]
    /\ delete_lock = [id \in TimelineIds |-> "free"]

\* create_timeline_task returns.
CreateReturns(c, res) ==
    creating' = [creating EXCEPT ![c] = [IdleCreate EXCEPT !.res = res]]

CreateAt(c, pc) == creating' = [creating EXCEPT ![c].pc = pc]

\* create_ondisk_state has failed with err: creation_failed comes next.
CreateFailsWith(c, err) ==
    creating' = [creating EXCEPT ![c].pc = "failed", ![c].res = err]

\* The guard of gc_cs is dropped when its holder returns.
ReleaseGcCs(task) == gc_cs' = IF gc_cs = task THEN "free" ELSE gc_cs

\* create_timeline_task up to the opportunistic checks of
\* start_creating_timeline: neither the uninit mark nor the timeline
\* directory may exist.  A timeline is not created as its own ancestor; the
\* start LSN of a timeline without ancestor is not used.
CreateTimeline(c, id, anc, start_lsn) ==
    /\ tenant_state \in {"Active", "Broken"}
    /\ creating[c].pc = "idle"
    /\ anc # id
    /\ anc = NoAncestor => start_lsn = 0
    /\ IF tenant_state # "Active"
       THEN CreateReturns(c, "Err:inactive tenant")
       ELSE IF uninit_mark[id] \/ timeline_dir[id].exists
       THEN CreateReturns(c, "Err:AlreadyExists")
       ELSE creating' = [creating EXCEPT ![c] =
                [pc |-> "checked", id |-> id, ancestor |-> anc,
                 start_lsn |-> start_lsn, src_cutoff |-> 0, res |-> "none"]]
    /\ UNCHANGED <<timelines, uninit_mark, timeline_dir, tenant_state>>
    /\ UNCHANGED <<tl_ancestor, gc_cs, gc_vars, deleting, delete_lock>>
    /\ UNCHANGED outside_tenant

\* start_creating_timeline: the placeholder goes into the map.
StartInsertPlaceholder(c) ==
    /\ tenant_state = "Active"
    /\ creating[c].pc = "checked"
    /\ LET id == creating[c].id IN
       IF timelines[id] # "absent"
       THEN /\ CreateReturns(c, "Err:AlreadyExists")
            /\ UNCHANGED timelines
       ELSE /\ timelines' = [timelines EXCEPT ![id] = "Creating"]
            /\ CreateAt(c, "inserted")
    /\ UNCHANGED <<uninit_mark, timeline_dir, tenant_state>>
    /\ UNCHANGED <<tl_ancestor, gc_cs, gc_vars, deleting, delete_lock>>
    /\ UNCHANGED outside_tenant

\* start_creating_timeline: the checks again, which return with the
\* placeholder in the map, then the uninit mark file is created.
StartCreateUninitMark(c) ==
    /\ tenant_state = "Active"
    /\ creating[c].pc = "inserted"
    /\ LET id == creating[c].id IN
       IF timeline_dir[id].exists \/ uninit_mark[id]
       THEN /\ CreateReturns(c, "Err:AlreadyExists")
            /\ UNCHANGED uninit_mark
       ELSE /\ uninit_mark' = [uninit_mark EXCEPT ![id] = TRUE]
            /\ CreateAt(c, "marked")
    /\ UNCHANGED <<timelines, timeline_dir, tenant_state>>
    /\ UNCHANGED <<tl_ancestor, gc_cs, gc_vars, deleting, delete_lock>>
    /\ UNCHANGED outside_tenant

Min(a, b) == IF a <= b THEN a ELSE b
Max(a, b) == IF a >= b THEN a ELSE b

\* The planned GC cutoff: min(gc_info.pitr_cutoff, gc_info.horizon_cutoff).
PlannedCutoff(info) == Min(info.pitr_cutoff, info.horizon_cutoff)

\* Timeline::check_lsn_is_in_scope: the LSN is not below the latest GC
\* cutoff of the timeline.
LsnIsInScope(lsn, latest) == lsn >= latest

\* A check of the branch point against the larger of the planned cutoffs.
BranchPointValid_MaxCutoff(start_lsn, latest, info) ==
    /\ LsnIsInScope(start_lsn, latest)
    /\ start_lsn >= Max(info.pitr_cutoff, info.horizon_cutoff)

\* branch_timeline_impl: check_lsn_is_in_scope against the latest GC cutoff
\* of the source, then the check against its planned GC cutoff.
BranchPointValid(start_lsn, latest, info) ==
    /\ LsnIsInScope(start_lsn, latest)
    /\ ~(start_lsn < PlannedCutoff(info))

\* create_ondisk_state of a branch: the ancestor is looked up in the map,
\* whatever the state of its entry; branch_timeline_impl takes gc_cs and
\* checks the branch point.
BranchValidate(c) ==
    /\ tenant_state = "Active"
    /\ creating[c].pc = "marked"
    /\ creating[c].ancestor # NoAncestor
    /\ LET anc == creating[c].ancestor
           start_lsn == creating[c].start_lsn
       IN  IF timelines[anc] = "absent"
           THEN /\ CreateFailsWith(c, "Err:ancestor not found")
                /\ UNCHANGED gc_cs
           ELSE /\ gc_cs = "free"
                /\ IF BranchPointValid(start_lsn, latest_gc_cutoff[anc],
                                       gc_info[anc])
                   THEN /\ creating' = [creating EXCEPT
                               ![c].pc = "validated",
                               ![c].src_cutoff = latest_gc_cutoff[anc]]
                        /\ gc_cs' = c
                   ELSE /\ CreateFailsWith(c, "Err:invalid branch start lsn")
                        /\ UNCHANGED gc_cs
    /\ UNCHANGED <<timelines, uninit_mark, timeline_dir, tenant_state>>
    /\ UNCHANGED <<tl_ancestor, gc_vars, deleting, delete_lock>>
    /\ UNCHANGED outside_tenant

\* create_timeline_files: the timeline directory is created, for a branch
\* after its branch point was checked.
OnDiskCreateDir(c) ==
    /\ tenant_state = "Active"
    /\ \/ creating[c].pc = "validated"
       \/ creating[c].pc = "marked" /\ creating[c].ancestor = NoAncestor
    /\ timeline_dir' = [timeline_dir EXCEPT ![creating[c].id] = EmptyDir]
    /\ CreateAt(c, "dir")
    /\ UNCHANGED <<timelines, uninit_mark, tenant_state>>
    /\ UNCHANGED <<tl_ancestor, gc_cs, gc_vars, deleting, delete_lock>>
    /\ UNCHANGED outside_tenant

\* create_timeline_files: save_metadata; branch_timeline_impl returns and
\* drops its guard of gc_cs.
OnDiskSaveMetadata(c) ==
    /\ tenant_state = "Active"
    /\ creating[c].pc = "dir"
    /\ timeline_dir' = [timeline_dir EXCEPT ![creating[c].id] =
                            WithMetadata(creating[c].ancestor,
                                         creating[c].start_lsn,
                                         creating[c].src_cutoff)]
    /\ CreateAt(c, "ondisk")
    /\ ReleaseGcCs(c)
    /\ UNCHANGED <<timelines, uninit_mark, tenant_state>>
    /\ UNCHANGED <<tl_ancestor, gc_vars, deleting, delete_lock>>
    /\ UNCHANGED outside_tenant

\* create_ondisk_state fails: the wait for the branch point, initdb or the
\* import fails, the uploads fail.
OnDiskFails(c) ==
    /\ tenant_state = "Active"
    /\ creating[c].pc \in {"marked", "validated", "dir", "ondisk"}
    /\ CreateFailsWith(c, "Err:create")
    /\ ReleaseGcCs(c)
    /\ UNCHANGED <<timelines, uninit_mark, timeline_dir, tenant_state>>
    /\ UNCHANGED <<tl_ancestor, gc_vars, deleting, delete_lock>>
    /\ UNCHANGED outside_tenant

\* creation_failed: the timeline directory is removed first.
CreationFailedRemoveDir(c) ==
    /\ tenant_state = "Active"
    /\ creating[c].pc = "failed"
    /\ timeline_dir' = [timeline_dir EXCEPT ![creating[c].id] = NoDir]
    /\ CreateAt(c, "failed_dir")
    /\ UNCHANGED <<timelines, uninit_mark, tenant_state>>
    /\ UNCHANGED <<tl_ancestor, gc_cs, gc_vars, deleting, delete_lock>>
    /\ UNCHANGED outside_tenant

\* creation_failed: then the uninit mark.
CreationFailedRemoveMark(c) ==
    /\ tenant_state = "Active"
    /\ creating[c].pc = "failed_dir"
    /\ uninit_mark' = [uninit_mark EXCEPT ![creating[c].id] = FALSE]
    /\ CreateAt(c, "failed_mark")
    /\ UNCHANGED <<timelines, timeline_dir, tenant_state>>
    /\ UNCHANGED <<tl_ancestor, gc_cs, gc_vars, deleting, delete_lock>>
    /\ UNCHANGED outside_tenant

\* creation_failed: remove_placeholder_timeline_object_from_inmemory_map;
\* create_timeline_task returns the error of create_ondisk_state.
CreationFailedRemovePlaceholder(c) ==
    /\ tenant_state = "Active"
    /\ creating[c].pc = "failed_mark"
    /\ LET id == creating[c].id IN
       timelines' = [timelines EXCEPT ![id] =
                        IF @ = "Creating" THEN "absent" ELSE @]
    /\ CreateReturns(c, creating[c].res)
    /\ UNCHANGED <<uninit_mark, timeline_dir, tenant_state>>
    /\ UNCHANGED <<tl_ancestor, gc_cs, gc_vars, deleting, delete_lock>>
    /\ UNCHANGED outside_tenant

\* creation_complete_remove_uninit_marker_and_get_placeholder_timeline.
CreationComplete(c) ==
    /\ tenant_state = "Active"
    /\ creating[c].pc = "ondisk"
    /\ uninit_mark' = [uninit_mark EXCEPT ![creating[c].id] = FALSE]
    /\ CreateAt(c, "complete")
    /\ UNCHANGED <<timelines, timeline_dir, tenant_state>>
    /\ UNCHANGED <<tl_ancestor, gc_cs, gc_vars, deleting, delete_lock>>
    /\ UNCHANGED outside_tenant

\* create_timeline_task: load_metadata and load_local_timeline build the
\* real timeline, or fail, and the task returns with the placeholder in the
\* map.
LoadLocalTimeline(c, ok) ==
    /\ tenant_state = "Active"
    /\ creating[c].pc = "complete"
    /\ IF ok THEN CreateAt(c, "loaded") ELSE CreateReturns(c, "Err:load")
    /\ UNCHANGED <<timelines, uninit_mark, timeline_dir, tenant_state>>
    /\ UNCHANGED <<tl_ancestor, gc_cs, gc_vars, deleting, delete_lock>>
    /\ UNCHANGED outside_tenant

\* The ancestor of the Timeline that is built from a metadata file.
AncestorIn(dir) ==
    IF dir.ancestor = NoAncestor THEN Root
    ELSE BranchOf(dir.ancestor, dir.ancestor_lsn)

\* create_timeline_task: the real timeline, built from the metadata file,
\* replaces the placeholder and is activated.
ReplacePlaceholder(c) ==
    /\ tenant_state = "Active"
    /\ creating[c].pc = "loaded"
    /\ timelines[creating[c].id] = "Creating"
    /\ LET id == creating[c].id IN
       /\ timelines' = [timelines EXCEPT ![id] = "Active"]
       /\ tl_ancestor' = [tl_ancestor EXCEPT ![id] =
                              AncestorIn(timeline_dir[id])]
       /\ latest_gc_cutoff' = [latest_gc_cutoff EXCEPT ![id] =
                                   timeline_dir[id].latest_gc_cutoff]
    /\ CreateReturns(c, "Ok")
    /\ UNCHANGED <<uninit_mark, timeline_dir, tenant_state>>
    /\ UNCHANGED <<gc_cs, gc_info, gc, deleting, delete_lock>>
    /\ UNCHANGED outside_tenant

\* The process stops: the map and the tasks are gone, the files stay.
ProcessStops ==
    /\ tenant_state # "Stopped"
    /\ tenant_state' = "Stopped"
    /\ timelines' = [id \in TimelineIds |-> "absent"]
    /\ creating' = [c \in CTasks |-> IdleCreate]
    /\ tl_ancestor' = [id \in TimelineIds |-> Root]
    /\ gc_cs' = "free"
    /\ gc_info' = [id \in TimelineIds |-> NoGcInfo]
    /\ latest_gc_cutoff' = [id \in TimelineIds |-> 0]
    /\ gc' = IdleGc
    /\ deleting' = [d \in DTasks |-> IdleDelete]
    /\ delete_lock' = [id \in TimelineIds |-> "free"]
    /\ UNCHANGED <<uninit_mark, timeline_dir>>
    /\ UNCHANGED outside_tenant

\* The process starts and Tenant::load begins.
LoadBegins ==
    /\ tenant_state = "Stopped"
    /\ tenant_state' = "Loading"
    /\ UNCHANGED <<timelines, uninit_mark, timeline_dir, creating>>
    /\ UNCHANGED <<tl_ancestor, gc_cs, gc_vars, deleting, delete_lock>>
    /\ UNCHANGED outside_tenant

\* Tenant::load, the scan: remove_timeline_and_uninit_mark for an uninit
\* mark found in the timelines directory.
LoadRemoveUninit(id) ==
    /\ tenant_state = "Loading"
    /\ uninit_mark[id]
    /\ timeline_dir' = [timeline_dir EXCEPT ![id] = NoDir]
    /\ uninit_mark' = [uninit_mark EXCEPT ![id] = FALSE]
    /\ UNCHANGED <<timelines, creating, tenant_state>>
    /\ UNCHANGED <<tl_ancestor, gc_cs, gc_vars, deleting, delete_lock>>
    /\ UNCHANGED outside_tenant

\* tree_sort_timelines: the ids visited, from the roots to their children.
RECURSIVE TreeSortVisits(_, _)
TreeSortVisits(visited, dirs) ==
    LET now == {id \in DOMAIN dirs \ visited :
                    \/ dirs[id].ancestor = NoAncestor
                    \/ dirs[id].ancestor \in visited}
    IN  IF now = {} THEN visited
        ELSE TreeSortVisits(visited \cup now, dirs)

\* Tenant::load after the scan: load_metadata of every directory left, the
\* tree sort, and every timeline loaded into the map; an error breaks the
\* tenant.
LoadTimelines ==
    /\ tenant_state = "Loading"
    /\ \A id \in TimelineIds : ~uninit_mark[id]
    /\ LET to_load == {id \in TimelineIds : timeline_dir[id].exists}
           dirs == [id \in to_load |-> timeline_dir[id]]
       IN  IF \/ \E id \in to_load : ~timeline_dir[id].metadata
              \/ TreeSortVisits({}, dirs) # to_load
           THEN /\ tenant_state' = "Broken"
                /\ UNCHANGED <<timelines, tl_ancestor, latest_gc_cutoff>>
           ELSE /\ tenant_state' = "Active"
                /\ timelines' = [id \in TimelineIds |->
                                    IF id \in to_load THEN "Active"
                                    ELSE "absent"]
                /\ tl_ancestor' = [id \in TimelineIds |->
                                      IF id \in to_load
                                      THEN AncestorIn(timeline_dir[id])
                                      ELSE Root]
                /\ latest_gc_cutoff' =
                       [id \in TimelineIds |->
                           IF id \in to_load
                           THEN timeline_dir[id].latest_gc_cutoff ELSE 0]
    /\ UNCHANGED <<uninit_mark, timeline_dir, creating>>
    /\ UNCHANGED <<gc_cs, gc_info, gc, deleting, delete_lock>>
    /\ UNCHANGED outside_tenant

\* The timelines of the map whose ancestor is the timeline id.
ChildrenOf(id) ==
    {child \in TimelineIds :
        timelines[child] # "absent" /\ tl_ancestor[child].id = id}

DeleteReturns(d, res) ==
    deleting' = [deleting EXCEPT ![d] = [IdleDelete EXCEPT !.res = res]]

\* prepare_and_schedule_delete_timeline, under the lock of the map: the
\* children, the entry and its state are checked, delete_lock is tried, and
\* the timeline is set to Stopping.  The flag under delete_lock is never set,
\* so the early Ok(()) is not taken.
DeleteRequest(d, id) ==
    /\ tenant_state = "Active"
    /\ deleting[d].pc = "idle"
    /\ IF ChildrenOf(id) # {}
       THEN /\ DeleteReturns(d, "Err:HasChildren")
            /\ UNCHANGED <<timelines, delete_lock>>
       ELSE IF timelines[id] = "absent"
       THEN /\ DeleteReturns(d, "Err:NotFound")
            /\ UNCHANGED <<timelines, delete_lock>>
       ELSE IF timelines[id] = "Creating"
       THEN /\ DeleteReturns(d, "Err:timeline is creating")
            /\ UNCHANGED <<timelines, delete_lock>>
       ELSE IF delete_lock[id] # "free"
       THEN /\ DeleteReturns(d, "Err:timeline deletion is already in progress")
            /\ UNCHANGED <<timelines, delete_lock>>
       ELSE /\ timelines' = [timelines EXCEPT ![id] = "Stopping"]
            /\ delete_lock' = [delete_lock EXCEPT ![id] = d]
            /\ deleting' = [deleting EXCEPT ![d] =
                               [pc |-> "accepted", id |-> id, res |-> "none"]]
    /\ UNCHANGED <<uninit_mark, timeline_dir, creating, tenant_state>>
    /\ UNCHANGED <<tl_ancestor, gc_cs, gc_vars>>
    /\ UNCHANGED outside_tenant

\* task_mgr::shutdown_tasks for the timeline of the request of d has
\* returned: no task that was spawned for the timeline is running, the
\* task of delete_timeline of an earlier request included.
TimelineTasksShutDown(d) ==
    \A other \in DTasks \ {d} :
        deleting[other].id = deleting[d].id
            => deleting[other].pc \notin {"scheduled", "dir_removed"}

\* prepare_and_schedule_delete_timeline after the tasks of the timeline were
\* shut down: schedule_delete_timeline spawns the task of delete_timeline
\* and returns, which drops its parameter _guard: delete_lock is free while
\* the spawned task runs.  The request returns Ok(()).
DeleteSchedule(d) ==
    /\ tenant_state = "Active"
    /\ deleting[d].pc = "accepted"
    /\ TimelineTasksShutDown(d)
    /\ delete_lock' = [delete_lock EXCEPT ![deleting[d].id] = "free"]
    /\ deleting' = [deleting EXCEPT ![d].pc = "scheduled", ![d].res = "Ok"]
    /\ UNCHANGED <<timelines, uninit_mark, timeline_dir, creating,
                   tenant_state>>
    /\ UNCHANGED <<tl_ancestor, gc_cs, gc_vars>>
    /\ UNCHANGED outside_tenant

\* delete_timeline: remove_dir_all of the timeline directory; NotFound is
\* tolerated.
DeleteRemoveDir(d) ==
    /\ tenant_state = "Active"
    /\ deleting[d].pc = "scheduled"
    /\ timeline_dir' = [timeline_dir EXCEPT ![deleting[d].id] = NoDir]
    /\ deleting' = [deleting EXCEPT ![d].pc = "dir_removed"]
    /\ UNCHANGED <<timelines, uninit_mark, creating, tenant_state>>
    /\ UNCHANGED <<tl_ancestor, gc_cs, gc_vars, delete_lock>>
    /\ UNCHANGED outside_tenant

\* delete_timeline, under the lock of the map: it panics when a timeline of
\* the map has the deleted one as ancestor or when the entry is gone, else
\* the entry is removed, and with it the Timeline of the map.
DeleteRemoveFromMap(d) ==
    /\ tenant_state = "Active"
    /\ deleting[d].pc = "dir_removed"
    /\ LET id == deleting[d].id IN
       IF ChildrenOf(id) # {} \/ timelines[id] = "absent"
       THEN /\ deleting' = [deleting EXCEPT
                   ![d].pc = "panicked",
                   ![d].res = IF ChildrenOf(id) # {}
                              THEN "panic:Timeline grew children"
                              ELSE "panic:concurrently removed"]
            /\ UNCHANGED timelines
            /\ UNCHANGED <<tl_ancestor, gc_info, latest_gc_cutoff>>
       ELSE /\ timelines' = [timelines EXCEPT ![id] = "absent"]
            /\ tl_ancestor' = [tl_ancestor EXCEPT ![id] = Root]
            /\ gc_info' = [gc_info EXCEPT ![id] = NoGcInfo]
            /\ latest_gc_cutoff' = [latest_gc_cutoff EXCEPT ![id] = 0]
            /\ DeleteReturns(d, "Ok")
    /\ UNCHANGED <<uninit_mark, timeline_dir, creating, tenant_state>>
    /\ UNCHANGED <<gc_cs, gc, delete_lock>>
    /\ UNCHANGED outside_tenant

\* The branch points of the timeline id: the ancestor LSNs of the timelines
\* of the map whose ancestor it is.
BranchPointsOf(id) == {tl_ancestor[child].lsn : child \in ChildrenOf(id)}

\* refresh_gc_info_internal for a target timeline: gc_cs is taken and,
\* under the lock of the map, the branch points are collected; it bails
\* out when the target is not in the map.
GcRefreshCollect(target) ==
    /\ tenant_state = "Active"
    /\ gc.pc = "idle"
    /\ gc_cs = "free"
    /\ timelines[target] # "absent"
    /\ gc' = [pc |-> "collected", target |-> target,
              branchpoints |-> BranchPointsOf(target)]
    /\ gc_cs' = "gc"
    /\ UNCHANGED <<timelines, uninit_mark, timeline_dir, creating,
                   tenant_state>>
    /\ UNCHANGED <<tl_ancestor, gc_info, latest_gc_cutoff, deleting, delete_lock>>
    /\ UNCHANGED outside_tenant

\* refresh_gc_info_internal for a target timeline: get_timeline of the
\* target; when last_record_lsn - horizon exists, update_gc_info stores the
\* collected branch points with the cutoffs; gc_cs is dropped.
GcUpdateInfo(horizon_cutoff, pitr_cutoff, has_cutoff) ==
    /\ tenant_state = "Active"
    /\ gc.pc = "collected"
    /\ IF timelines[gc.target] = "absent" \/ ~has_cutoff
       THEN /\ gc' = IdleGc
            /\ UNCHANGED gc_info
       ELSE /\ gc_info' = [gc_info EXCEPT ![gc.target] =
                   [retain_lsns |-> gc.branchpoints,
                    horizon_cutoff |-> horizon_cutoff,
                    pitr_cutoff |-> pitr_cutoff]]
            /\ gc' = [gc EXCEPT !.pc = "refreshed"]
    /\ ReleaseGcCs("gc")
    /\ UNCHANGED <<timelines, uninit_mark, timeline_dir, creating,
                   tenant_state>>
    /\ UNCHANGED <<tl_ancestor, latest_gc_cutoff, deleting, delete_lock>>
    /\ UNCHANGED outside_tenant

\* gc_iteration_internal: Timeline::gc of the target, without gc_cs; the
\* latest GC cutoff of the timeline advances to the planned cutoff.  The GC
\* of a timeline that has left the map touches nothing that is kept.
GcTimeline ==
    /\ tenant_state = "Active"
    /\ gc.pc = "refreshed"
    /\ latest_gc_cutoff' =
           IF timelines[gc.target] = "absent" THEN latest_gc_cutoff
           ELSE [latest_gc_cutoff EXCEPT ![gc.target] =
                    Max(@, PlannedCutoff(gc_info[gc.target]))]
    /\ gc' = IdleGc
    /\ UNCHANGED <<timelines, uninit_mark, timeline_dir, creating,
                   tenant_state>>
    /\ UNCHANGED <<tl_ancestor, gc_cs, gc_info, deleting, delete_lock>>
    /\ UNCHANGED outside_tenant

----------------------------------------------------------------------------
(* The tenant: its state *)

StopCallers == {"s1", "s2"}
BrokenCallers == {"b1", "b2"}

\* TenantState::Activating(ActivatingFrom::Loading | Attaching).
ActivatingFrom(st) ==
    IF st = "Loading" THEN "Activating(Loading)" ELSE "Activating(Attaching)"

ActivatingStates == {"Activating(Loading)", "Activating(Attaching)"}

TenantStates ==
    {"Loading", "Attaching", "Active", "Stopping", "Broken"}
        \cup ActivatingStates

IdleCall == [pc |-> "idle", called_in |-> "none", res |-> "none"]

\* No tenant state is being changed.
NoTenantState ==
    /\ state = "Loading"
    /\ startup = "done"
    /\ stoppers = [s \in StopCallers |-> IdleCall]
    /\ breakers = [b \in BrokenCallers |-> IdleCall]
    /\ testing = FALSE
    /\ timeline_state = "Loading"

\* A wait that lets the caller through in every state.
ActivationIsOver_InEveryState(st) == st \in TenantStates

\* The condition of rx.wait_for in set_stopping and in set_broken.
ActivationIsOver(st) == st \in {"Active", "Broken", "Stopping"}

\* spawn_load, spawn_attach: load or attach has failed and the task sets
\* the state to Broken through the watch channel.
SpawnFails ==
    /\ startup = "running"
    /\ IF state \in {"Loading", "Attaching"}
       THEN /\ state' = "Broken"
            /\ startup' = "done"
       ELSE /\ startup' = "panicked"
            /\ UNCHANGED state
    /\ UNCHANGED <<stoppers, breakers, testing, timeline_state>>
    /\ UNCHANGED outside_state

\* activate, called when load or attach returned Ok: the first
\* send_modify.
ActivateBegins ==
    /\ startup = "running"
    /\ IF state \in {"Loading", "Attaching"}
       THEN /\ state' = ActivatingFrom(state)
            /\ startup' = "activating"
       ELSE /\ startup' = "panicked"
            /\ UNCHANGED state
    /\ UNCHANGED <<stoppers, breakers, testing, timeline_state>>
    /\ UNCHANGED outside_state

\* Timeline::activate on the timelines that are neither Broken nor Stopping.
ActivatedTimeline(st) == IF st \in {"Broken", "Stopping"} THEN st ELSE "Active"

\* activate: the timelines are activated, then the second send_modify.
ActivateEnds ==
    /\ startup = "activating"
    /\ timeline_state' = ActivatedTimeline(timeline_state)
    /\ IF state \in ActivatingStates
       THEN /\ state' = "Active"
            /\ startup' = "done"
       ELSE /\ startup' = "panicked"
            /\ UNCHANGED state
    /\ UNCHANGED <<stoppers, breakers, testing>>
    /\ UNCHANGED outside_state

\* set_stopping is called and subscribes to the state.
SetStoppingCalled(s) ==
    /\ stoppers[s].pc = "idle"
    /\ stoppers' = [stoppers EXCEPT ![s] =
                        [pc |-> "waiting", called_in |-> state,
                         res |-> "none"]]
    /\ UNCHANGED <<state, startup, breakers, testing, timeline_state>>
    /\ UNCHANGED outside_state

\* set_stopping: rx.wait_for returns.
SetStoppingWakes(s) ==
    /\ stoppers[s].pc = "waiting"
    /\ ActivationIsOver(state)
    /\ stoppers' = [stoppers EXCEPT ![s].pc = "woken"]
    /\ UNCHANGED <<state, startup, breakers, testing, timeline_state>>
    /\ UNCHANGED outside_state

\* A send_if_modified that also takes a Broken tenant to Stopping.
SetStoppingTransitions_FromBroken(s) ==
    /\ stoppers[s].pc = "woken"
    /\ state' = IF state \in {"Active", "Broken"} THEN "Stopping" ELSE state
    /\ stoppers' = [stoppers EXCEPT
           ![s].pc = IF state \in {"Active", "Broken"}
                     THEN "stopping" ELSE "idle",
           ![s].res = CASE state \in {"Active", "Broken"} -> "none"
                        [] state = "Stopping" -> "Err:AlreadyStopping"
                        [] OTHER -> "panic:unreachable"]
    /\ UNCHANGED <<startup, breakers, testing, timeline_state>>
    /\ UNCHANGED outside_state

\* A send_if_modified with which a caller that finds the tenant Stopping
\* goes on as the winner does.
SetStoppingTransitions_AlsoFromStopping(s) ==
    /\ stoppers[s].pc = "woken"
    /\ state' = IF state = "Active" THEN "Stopping" ELSE state
    /\ stoppers' = [stoppers EXCEPT
           ![s].pc = IF state \in {"Active", "Stopping"}
                     THEN "stopping" ELSE "idle",
           ![s].res = CASE state \in {"Active", "Stopping"} -> "none"
                        [] state = "Broken" -> "Err:Broken"
                        [] OTHER -> "panic:unreachable"]
    /\ UNCHANGED <<startup, breakers, testing, timeline_state>>
    /\ UNCHANGED outside_state

\* set_stopping: send_if_modified.  The winner goes on to the timelines,
\* every other caller returns its error.
SetStoppingTransitions(s) ==
    /\ stoppers[s].pc = "woken"
    /\ state' = IF state = "Active" THEN "Stopping" ELSE state
    /\ stoppers' = [stoppers EXCEPT
           ![s].pc = IF state = "Active" THEN "stopping" ELSE "idle",
           ![s].res = CASE state = "Active" -> "none"
                        [] state = "Broken" -> "Err:Broken"
                        [] state = "Stopping" -> "Err:AlreadyStopping"
                        [] OTHER -> "panic:unreachable"]
    /\ UNCHANGED <<startup, breakers, testing, timeline_state>>
    /\ UNCHANGED outside_state

\* Timeline::set_state(Stopping) on the timelines that are not Broken.
StoppedTimeline(st) == IF st = "Broken" THEN st ELSE "Stopping"

\* set_stopping of the winner: under the lock of timelines the timelines
\* are set to Stopping; Ok(()).
SetStoppingTimelines(s) ==
    /\ stoppers[s].pc = "stopping"
    /\ timeline_state' = StoppedTimeline(timeline_state)
    /\ stoppers' = [stoppers EXCEPT ![s].pc = "idle", ![s].res = "Ok"]
    /\ UNCHANGED <<state, startup, breakers, testing>>
    /\ UNCHANGED outside_state

\* set_broken is called and subscribes to the state.
SetBrokenCalled(b) ==
    /\ breakers[b].pc = "idle"
    /\ breakers' = [breakers EXCEPT ![b] =
                        [pc |-> "waiting", called_in |-> state,
                         res |-> "none"]]
    /\ UNCHANGED <<state, startup, stoppers, testing, timeline_state>>
    /\ UNCHANGED outside_state

\* A set_broken that does not wait for the activation to be over and sets
\* the state at once.
SetBrokenWakes_BreaksAtOnce(b) ==
    /\ breakers[b].pc = "waiting"
    /\ state' = "Broken"
    /\ breakers' = [breakers EXCEPT ![b].pc = "idle", ![b].res = "Ok"]
    /\ UNCHANGED <<startup, stoppers, testing, timeline_state>>
    /\ UNCHANGED outside_state

\* set_broken: rx.wait_for returns.
SetBrokenWakes(b) ==
    /\ breakers[b].pc = "waiting"
    /\ ActivationIsOver(state)
    /\ breakers' = [breakers EXCEPT ![b].pc = "woken"]
    /\ UNCHANGED <<state, startup, stoppers, testing, timeline_state>>
    /\ UNCHANGED outside_state

\* set_broken: send_modify.  An Active tenant is set to Broken only in a
\* build with the feature "testing"; in another build the closure panics.
SetBrokenTransitions(b) ==
    /\ breakers[b].pc = "woken"
    /\ state' = IF state = "Stopping" \/ (state = "Active" /\ testing)
                THEN "Broken" ELSE state
    /\ breakers' = [breakers EXCEPT
           ![b].pc = "idle",
           ![b].res = CASE state = "Active" ->
                             IF testing THEN "Ok" ELSE "panic:unreachable"
                        [] state \in {"Broken", "Stopping"} -> "Ok"
                        [] OTHER -> "panic:unreachable"]
    /\ UNCHANGED <<startup, stoppers, testing, timeline_state>>
    /\ UNCHANGED outside_state

----------------------------------------------------------------------------
(* tree_sort_timelines *)

SortIds == {"t1", "t2", "t3"}

\* The inputs: every sequence of timelines with distinct ids; the ancestor
\* of a timeline is none, a timeline of the input, itself included, or a
\* timeline that is not in the input.
SortInputs ==
    UNION {{input \in [1..n -> [id : SortIds,
                                ancestor : SortIds \cup {NoAncestor}]] :
               \A i, j \in 1..n : input[i].id = input[j].id => i = j} :
           n \in 0..Cardinality(SortIds)}

NoSortResult == [done |-> FALSE, ok |-> FALSE, order |-> <<>>]

NoSort ==
    /\ sort_input = <<>>
    /\ sort_result = NoSortResult

HasNoAncestor(timeline) == timeline.ancestor = NoAncestor

\* The for loop: now, the timelines without ancestor in the order of the
\* input.
TreeSortNow(input) == SelectSeq(input, HasNoAncestor)

\* The for loop: later, per ancestor the children in the order of the input.
TreeSortLater(input) ==
    [ancestor \in {input[i].ancestor : i \in DOMAIN input} \ {NoAncestor} |->
        SelectSeq(input, LAMBDA timeline : timeline.ancestor = ancestor)]

\* A return that never reports missing ancestors.
TreeSortReturns_NeverBails(later, result) ==
    [done |-> TRUE, ok |-> TRUE, order |-> result]

\* After the while loop: bail when later is not empty, else Ok(result).
TreeSortReturns(later, result) ==
    IF DOMAIN later # {}
    THEN [done |-> TRUE, ok |-> FALSE, order |-> <<>>]
    ELSE [done |-> TRUE, ok |-> TRUE, order |-> result]

\* The while loop: now.pop(), result.push, later.remove and now.append.
RECURSIVE TreeSortLoop(_, _, _)
TreeSortLoop(now, later, result) ==
    IF now = <<>> THEN TreeSortReturns(later, result)
    ELSE LET timeline == now[Len(now)]
             rest == SubSeq(now, 1, Len(now) - 1)
         IN  IF timeline.id \in DOMAIN later
             THEN TreeSortLoop(rest \o later[timeline.id],
                               [a \in DOMAIN later \ {timeline.id} |->
                                   later[a]],
                               Append(result, timeline))
             ELSE TreeSortLoop(rest, later, Append(result, timeline))

tree_sort_timelines(input) ==
    TreeSortLoop(TreeSortNow(input), TreeSortLater(input), <<>>)

\* tree_sort_timelines is applied to the input.
TreeSortTimelines ==
    /\ ~sort_result.done
    /\ sort_result' = tree_sort_timelines(sort_input)
    /\ UNCHANGED sort_input
    /\ UNCHANGED outside_sort

----------------------------------------------------------------------------
(* merge_local_remote_metadata *)

MetadataLsns == 0..2

\* Option<&TimelineMetadata>: disk_consistent_lsn and latest_gc_cutoff_lsn
\* of a metadata that is present.
NoMetadata ==
    [present |-> FALSE, disk_consistent_lsn |-> 0,
     latest_gc_cutoff_lsn |-> 0]

Metadatas ==
    {NoMetadata} \cup [present : {TRUE}, disk_consistent_lsn : MetadataLsns,
                       latest_gc_cutoff_lsn : MetadataLsns]

NoMergeResult == [res |-> "none", picked |-> "none"]

NoMerge ==
    /\ merge_input = [local |-> NoMetadata, remote |-> NoMetadata]
    /\ merge_result = NoMergeResult

NoFunctions == NoSort /\ NoMerge

\* Ord::cmp of two LSNs.
Cmp(a, b) ==
    IF a < b THEN "Less" ELSE IF a = b THEN "Equal" ELSE "Greater"

\* An inner match that takes the local metadata only when at most one of
\* the two comparisons is Greater.
MergeTakesLocal_AtMostOneGreater(consistent_lsn_cmp, gc_cutoff_lsn_cmp) ==
    <<consistent_lsn_cmp, gc_cutoff_lsn_cmp>> \in
        {<<"Equal", "Equal">>, <<"Greater", "Equal">>,
         <<"Equal", "Greater">>}

\* An inner match that also takes the local metadata when its GC cutoff is
\* behind the remote one.
MergeTakesLocal_AlsoGreaterLess(consistent_lsn_cmp, gc_cutoff_lsn_cmp) ==
    <<consistent_lsn_cmp, gc_cutoff_lsn_cmp>> \in
        {<<"Equal", "Equal">>, <<"Greater", "Greater">>,
         <<"Greater", "Equal">>, <<"Equal", "Greater">>,
         <<"Greater", "Less">>}

\* The inner match: the arms that return Ok((local, true)).
MergeTakesLocal(consistent_lsn_cmp, gc_cutoff_lsn_cmp) ==
    <<consistent_lsn_cmp, gc_cutoff_lsn_cmp>> \in
        {<<"Equal", "Equal">>, <<"Greater", "Greater">>,
         <<"Greater", "Equal">>, <<"Equal", "Greater">>}

merge_local_remote_metadata(local, remote) ==
    CASE ~local.present /\ ~remote.present ->
             [res |-> "Err:neither local nor remote", picked |-> "none"]
      [] local.present /\ ~remote.present ->
             [res |-> "Ok", picked |-> "local"]
      [] ~local.present /\ remote.present ->
             [res |-> "Ok", picked |-> "remote"]
      [] OTHER ->
             IF MergeTakesLocal(Cmp(local.disk_consistent_lsn,
                                    remote.disk_consistent_lsn),
                                Cmp(local.latest_gc_cutoff_lsn,
                                    remote.latest_gc_cutoff_lsn))
             THEN [res |-> "Ok", picked |-> "local"]
             ELSE [res |-> "Err:remote ahead of local", picked |-> "none"]

\* merge_local_remote_metadata is applied to the input.
MergeLocalRemoteMetadata ==
    /\ merge_result.res = "none"
    /\ merge_result' = merge_local_remote_metadata(merge_input.local,
                                                   merge_input.remote)
    /\ UNCHANGED merge_input
    /\ UNCHANGED outside_merge

----------------------------------------------------------------------------
(* The tenant: its locks *)

\* Tenant.gc_cs, Tenant.timelines, Tenant.state, and of a timeline of the
\* tenant: Timeline.state, Timeline.delete_lock, Timeline.layer_removal_cs.
Locks ==
    {"gc_cs", "timelines", "state", "timeline.state", "delete_lock",
     "layer_removal_cs"}

\* One task per operation of the tenant.
LockTasks == {"gc", "branch", "bootstrap", "delete", "activate", "stop"}

\* The lock operations of the code: lock() of a mutex or the closure of a
\* watch channel begins, the guard is dropped, try_lock_owned, rx.wait_for.
Lock(l) == [op |-> "lock", lock |-> l]
Unlock(l) == [op |-> "unlock", lock |-> l]
TryLock(l) == [op |-> "try_lock", lock |-> l]
WaitFor(l) == [op |-> "wait_for", lock |-> l]

\* refresh_gc_info_internal: gc_cs, under it the scan of the map and
\* get_timeline.
GcProgram ==
    <<Lock("gc_cs"), Lock("timelines"), Unlock("timelines"),
      Lock("timelines"), Unlock("timelines"), Unlock("gc_cs")>>

\* A branch creation that takes gc_cs with the map locked.
BranchProgram_GcCsUnderTimelines ==
    <<Lock("timelines"), Lock("gc_cs"), Unlock("gc_cs"),
      Unlock("timelines")>>

\* create_timeline_task of a branch: the placeholder, get_timeline of the
\* ancestor, branch_timeline_impl under gc_cs, the replacement of the
\* placeholder.
BranchProgram ==
    <<Lock("timelines"), Unlock("timelines"),
      Lock("timelines"), Unlock("timelines"),
      Lock("gc_cs"), Unlock("gc_cs"),
      Lock("timelines"), Unlock("timelines")>>

\* create_timeline_task without ancestor: the placeholder and its
\* replacement.
BootstrapProgram ==
    <<Lock("timelines"), Unlock("timelines"),
      Lock("timelines"), Unlock("timelines")>>

\* prepare_and_schedule_delete_timeline, schedule_delete_timeline and the
\* spawned delete_timeline.
DeleteProgram ==
    <<Lock("timelines"), TryLock("delete_lock"),
      Lock("timeline.state"), Unlock("timeline.state"), Unlock("timelines"),
      Unlock("delete_lock"),
      Lock("layer_removal_cs"), Unlock("layer_removal_cs"),
      Lock("timelines"), Unlock("timelines")>>

\* activate: send_modify, then under the lock of the map the activation of
\* the timelines and the second send_modify.
ActivateProgram ==
    <<Lock("state"), Unlock("state"),
      Lock("timelines"),
      Lock("timeline.state"), Unlock("timeline.state"),
      Lock("state"), Unlock("state"),
      Unlock("timelines")>>

\* set_stopping: the wait for the end of the activation, send_if_modified,
\* then under the lock of the map the timelines are set to Stopping.
StopProgram ==
    <<WaitFor("state"), Lock("state"), Unlock("state"),
      Lock("timelines"),
      Lock("timeline.state"), Unlock("timeline.state"),
      Unlock("timelines")>>

LockProgram(t) ==
    CASE t = "gc" -> GcProgram
      [] t = "branch" -> BranchProgram
      [] t = "bootstrap" -> BootstrapProgram
      [] t = "delete" -> DeleteProgram
      [] t = "activate" -> ActivateProgram
      [] t = "stop" -> StopProgram

\* No task has started and no lock is held.
NoLocking ==
    /\ lock_holder = [l \in Locks |-> "free"]
    /\ lock_pc = [t \in LockTasks |-> 0]

LockTaskDone(t) == lock_pc[t] = Len(LockProgram(t))

\* The next lock operation of a task that has not come to its end.
NextOp(t) == LockProgram(t)[lock_pc[t] + 1]

\* activate has made its second send_modify: the tenant is Active.
TenantIsActive == lock_pc["activate"] >= Len(ActivateProgram) - 1

\* The task t takes its next lock operation: lock() returns when the lock
\* is free, try_lock_owned returns at once and ends the operation when the
\* lock is held, rx.wait_for returns when the activation is over.
LockStep(t) ==
    /\ ~LockTaskDone(t)
    /\ LET next == NextOp(t) IN
       CASE next.op = "lock" ->
               /\ lock_holder[next.lock] = "free"
               /\ lock_holder' = [lock_holder EXCEPT ![next.lock] = t]
               /\ lock_pc' = [lock_pc EXCEPT ![t] = @ + 1]
         [] next.op = "unlock" ->
               /\ lock_holder' = [lock_holder EXCEPT ![next.lock] = "free"]
               /\ lock_pc' = [lock_pc EXCEPT ![t] = @ + 1]
         [] next.op = "try_lock" ->
               IF lock_holder[next.lock] = "free"
               THEN /\ lock_holder' = [lock_holder EXCEPT ![next.lock] = t]
                    /\ lock_pc' = [lock_pc EXCEPT ![t] = @ + 1]
               ELSE /\ lock_holder' = [l \in Locks |->
                           IF lock_holder[l] = t THEN "free"
                           ELSE lock_holder[l]]
                    /\ lock_pc' = [lock_pc EXCEPT ![t] = Len(LockProgram(t))]
         [] next.op = "wait_for" ->
               /\ TenantIsActive
               /\ lock_pc' = [lock_pc EXCEPT ![t] = @ + 1]
               /\ UNCHANGED lock_holder
    /\ UNCHANGED outside_locks

----------------------------------------------------------------------------
(* The clock: Timing *)

\* Half of the range of a u32.
NonceHalf == 65536

\* How many schedule calls are followed.
MaxScheduled == 3

\* The times given to schedule.
Times == 0..2

ZeroNonce == [hi |-> 0, lo |-> 0]

\* The largest u32.
LastNonce == [hi |-> NonceHalf - 1, lo |-> NonceHalf - 1]

\* nonce + 1 in a u32 that wraps.
NonceSucc(n) ==
    IF n.lo < NonceHalf - 1 THEN [hi |-> n.hi, lo |-> n.lo + 1]
    ELSE IF n.hi < NonceHalf - 1 THEN [hi |-> n.hi + 1, lo |-> 0]
    ELSE ZeroNonce

NonceLess(a, b) == a.hi < b.hi \/ (a.hi = b.hi /\ a.lo < b.lo)

NoStepResult == [kind |-> "none", time |-> 0, seq |-> 0]

TimingPanics == {"panic:overflow", "panic:assert"}

\* Timing::new(), with nothing called.
NoTiming ==
    /\ current_time = 0
    /\ timers = {}
    /\ nonce = ZeroNonce
    /\ overflow_checks = FALSE
    /\ scheduled = 0
    /\ step_result = NoStepResult

\* impl Ord for Pending, reversed for the max-heap: a is popped before b.
PoppedBefore(a, b) ==
    \/ a.time < b.time
    \/ a.time = b.time /\ NonceLess(a.nonce, b.nonce)

\* timers.peek(): a greatest element of the heap.
Peek(heap) == CHOOSE p \in heap : \A q \in heap : ~PoppedBefore(q, p)

\* is_event_ready
IsEventReady(heap, now) == heap # {} /\ Peek(heap).time <= now

\* Timing::schedule(time, event).  The addition panics at the largest nonce
\* in a build with overflow checks and wraps in a build without.
Schedule(time) ==
    /\ step_result.kind \notin TimingPanics
    /\ scheduled < MaxScheduled
    /\ IF overflow_checks /\ nonce = LastNonce
       THEN /\ step_result' = [kind |-> "panic:overflow", time |-> time,
                               seq |-> 0]
            /\ UNCHANGED <<timers, nonce, scheduled>>
       ELSE /\ nonce' = NonceSucc(nonce)
            /\ timers' = timers \cup {[time |-> time, nonce |-> nonce',
                                        seq |-> scheduled + 1]}
            /\ scheduled' = scheduled + 1
            /\ step_result' = [kind |-> "scheduled", time |-> time,
                               seq |-> scheduled + 1]
    /\ UNCHANGED <<current_time, overflow_checks>>
    /\ UNCHANGED outside_time

\* Timing::step().
Step ==
    /\ step_result.kind \notin TimingPanics
    /\ IF timers = {}
       THEN /\ step_result' = [kind |-> "None", time |-> 0, seq |-> 0]
            /\ UNCHANGED <<current_time, timers>>
       ELSE LET next_time == Peek(timers).time
                now == IF IsEventReady(timers, current_time)
                       THEN current_time ELSE next_time
            IN  /\ current_time' = now
                /\ IF IsEventReady(timers, now)
                   THEN /\ timers' = timers \ {Peek(timers)}
                        /\ step_result' = [kind |-> "Some",
                                           time |-> Peek(timers).time,
                                           seq |-> Peek(timers).seq]
                   ELSE /\ step_result' = [kind |-> "panic:assert",
                                           time |-> next_time, seq |-> 0]
                        /\ UNCHANGED timers
    /\ UNCHANGED <<nonce, overflow_checks, scheduled>>
    /\ UNCHANGED outside_time

----------------------------------------------------------------------------
(* empty(lsn, historic) *)

\* The historic sets a layer map is constructed with: none, or one layer
\* flushed earlier whose records are at LSNs that the counter has reached.
InitLayers(lsn) ==
    {[frozen |-> TRUE,
      by_key |-> [c \in Cells |-> IF c \in S THEN "a" ELSE NoDelta]] :
        S \in (SUBSET {c \in Cells : c[2] <= lsn}) \ {{}}}

InitHistorics(lsn) ==
    {EmptyHistoric} \cup
    {MakeHistoric(EmptyHistoric, l).historic : l \in InitLayers(lsn)}

Init ==
    /\ cnt \in InitLsns
    /\ historic \in InitHistorics(cnt)
    /\ inmem = None
    /\ holder = "free"
    /\ poisoned = FALSE
    /\ rw = "new"
    /\ rd = [r \in Readers |-> IdleReader]
    /\ accepted = {}
    /\ NoLayer
    /\ NoTenant
    /\ NoTenantState
    /\ NoFunctions
    /\ NoTiming
    /\ NoLocking

Next ==
    \/ WriterTryLockFails
    \/ \E key \in Keys, lsn \in Lsns, delta \in Deltas : Put(key, lsn, delta)
    \/ ForceFlush
    \/ \E r \in Readers, key \in Keys, lsn \in 0..MaxLsn : GetCall(r, key, lsn)
    \/ \E r \in Readers : GetLock(r)
    \/ \E r \in Readers : GetRead(r)
    \/ \E r \in Readers : GetDone(r)

Spec == Init /\ [][Next]_vars

\* Readers are scheduled; the mutex is handed to a reader that keeps asking.
FairSpec ==
    /\ Spec
    /\ \A r \in Readers : SF_vars(GetLock(r))
    /\ \A r \in Readers : WF_vars(GetRead(r))

----------------------------------------------------------------------------
(* The layer handle: its tasks and its specification *)

\* Drop for LayerE, when the last Arc<LayerE> is gone: with
\* wanted_garbage_collected the local file is removed and, only when that
\* succeeded and the timeline and its remote client are there, the remote
\* deletion is scheduled.  Then the fields are dropped: a DownloadedLayer
\* of the slot finds no owner to upgrade.
LayerEDrop ==
    /\ ~layer_dropped
    /\ ~LayerOwned
    /\ layer_dropped' = TRUE
    /\ IF wanted_garbage_collected
       THEN /\ file' = RemoveFile(file)
            /\ deletions' =
                 IF IsRegularFile(file) /\ timeline_alive /\ have_remote_client
                 THEN deletions + 1
                 ELSE deletions
       ELSE UNCHANGED <<file, deletions>>
    /\ downloaded' = [d \in Objs |->
                        IF downloaded[d].st = "alive"
                        THEN [downloaded[d] EXCEPT !.st = "dead"]
                        ELSE downloaded[d]]
    /\ UNCHANGED <<inner, inner_guard, wanted_garbage_collected,
                   wanted_evicted, version, have_remote_client,
                   treat_error_as_warn, timeline_alive, evictions, gd,
                   downloads, in_layer_map>>
    /\ UNCHANGED outside_layer

\* The last Arc<Timeline> is dropped.  A get_or_download past its upgrade,
\* a download task and a running eviction task each hold one.
TimelineGone ==
    /\ timeline_alive
    /\ \A t \in GTasks : gd[t].pc \notin {"taken", "downloading"}
    /\ downloads = {}
    /\ \A e \in evictions : e.pc # "locked"
    /\ timeline_alive' = FALSE
    /\ UNCHANGED <<inner, inner_guard, wanted_garbage_collected,
                   wanted_evicted, version, have_remote_client,
                   treat_error_as_warn, file, downloaded, evictions, gd,
                   downloads, deletions, in_layer_map, layer_dropped>>
    /\ UNCHANGED outside_layer

\* The files a layer can be constructed over.
Files == {None, NotFile} \cup {RegularFile(len) : len \in FileLens}

\* The layer map outside of this specification.
NoLayerMap ==
    /\ cnt = 0
    /\ inmem = None
    /\ historic = EmptyHistoric
    /\ holder = "free"
    /\ poisoned = FALSE
    /\ rw = "new"
    /\ rd = [r \in Readers |-> IdleReader]
    /\ accepted = {}

\* LayerE::new over a local or a remote layer file, or LayerE::for_written,
\* whose ResidentLayer the caller holds; the handle is in the layer map.
LayerInit ==
    /\ have_remote_client \in BOOLEAN
    /\ treat_error_as_warn \in BOOLEAN
    /\ timeline_alive = TRUE
    /\ \/ /\ inner = None
          /\ file \in Files
          /\ file = None => have_remote_client
          /\ downloaded = [d \in Objs |-> NoObject]
       \/ /\ inner = Resident(0)
          /\ file = RegularFile(FileSize)
          /\ downloaded = [d \in Objs |->
                             IF d = 0 THEN [st |-> "alive", refs |-> 1]
                             ELSE NoObject]
    /\ inner_guard = "free"
    /\ wanted_garbage_collected = FALSE
    /\ wanted_evicted = FALSE
    /\ version = 0
    /\ evictions = {}
    /\ gd = [t \in GTasks |-> IdleTask]
    /\ downloads = {}
    /\ deletions = 0
    /\ in_layer_map = TRUE
    /\ layer_dropped = FALSE
    /\ NoLayerMap
    /\ NoTenant
    /\ NoTenantState
    /\ NoFunctions
    /\ NoTiming
    /\ NoLocking

LayerNext ==
    \/ \E t \in GTasks : GLock(t)
    \/ \E t \in GTasks, mode \in Modes : GCheck(t, mode)
    \/ \E t \in GTasks : GNeedsDownload(t)
    \/ \E w \in GTasks \cup {"orphan"}, outcome \in DownloadOutcomes :
          DownloadDone(w, outcome)
    \/ \E t \in GTasks : GCancel(t)
    \/ Evict
    \/ \E d \in Objs : DropResident(d)
    \/ \E d \in Objs : OnDrop(d)
    \/ \E d \in Objs : OnDropSpawn(d)
    \/ \E e \in evictions : EvictionLock(e)
    \/ \E e \in evictions : EvictionRun(e)
    \/ GarbageCollect
    \/ RemoveFromLayerMap
    \/ LayerEDrop
    \/ TimelineGone

LayerSpec == LayerInit /\ [][LayerNext]_layer_vars

----------------------------------------------------------------------------
(* The tenant: its specification *)

\* A tenant that was created empty and is active; no layer map and no layer
\* handle in this specification.
TenantInit ==
    /\ timelines = [id \in TimelineIds |-> "absent"]
    /\ uninit_mark = [id \in TimelineIds |-> FALSE]
    /\ timeline_dir = [id \in TimelineIds |-> NoDir]
    /\ creating = [c \in CTasks |-> IdleCreate]
    /\ tenant_state = "Active"
    /\ tl_ancestor = [id \in TimelineIds |-> Root]
    /\ gc_cs = "free"
    /\ gc_info = [id \in TimelineIds |-> NoGcInfo]
    /\ latest_gc_cutoff = [id \in TimelineIds |-> 0]
    /\ gc = IdleGc
    /\ deleting = [d \in DTasks |-> IdleDelete]
    /\ delete_lock = [id \in TimelineIds |-> "free"]
    /\ NoLayerMap
    /\ NoLayer
    /\ NoTenantState
    /\ NoFunctions
    /\ NoTiming
    /\ NoLocking

TenantNext ==
    \/ \E c \in CTasks, id \in TimelineIds, anc \in Ancestors,
          start_lsn \in BranchLsns :
          CreateTimeline(c, id, anc, start_lsn)
    \/ \E c \in CTasks : StartInsertPlaceholder(c)
    \/ \E c \in CTasks : StartCreateUninitMark(c)
    \/ \E c \in CTasks : BranchValidate(c)
    \/ \E c \in CTasks : OnDiskCreateDir(c)
    \/ \E c \in CTasks : OnDiskSaveMetadata(c)
    \/ \E c \in CTasks : OnDiskFails(c)
    \/ \E c \in CTasks : CreationFailedRemoveDir(c)
    \/ \E c \in CTasks : CreationFailedRemoveMark(c)
    \/ \E c \in CTasks : CreationFailedRemovePlaceholder(c)
    \/ \E c \in CTasks : CreationComplete(c)
    \/ \E c \in CTasks, ok \in BOOLEAN : LoadLocalTimeline(c, ok)
    \/ \E c \in CTasks : ReplacePlaceholder(c)
    \/ ProcessStops
    \/ LoadBegins
    \/ \E id \in TimelineIds : LoadRemoveUninit(id)
    \/ LoadTimelines
    \/ \E id \in TimelineIds : DeleteRequest(OneDeleter, id)
    \/ DeleteSchedule(OneDeleter)
    \/ DeleteRemoveDir(OneDeleter)
    \/ DeleteRemoveFromMap(OneDeleter)

TenantSpec == TenantInit /\ [][TenantNext]_tenant_vars

\* Creations of timelines without ancestor and two tasks of deletion, with
\* neither a stop of the process nor GC.
DeleteNext ==
    \/ \E c \in CTasks, id \in TimelineIds :
          CreateTimeline(c, id, NoAncestor, 0)
    \/ \E c \in CTasks : StartInsertPlaceholder(c)
    \/ \E c \in CTasks : StartCreateUninitMark(c)
    \/ \E c \in CTasks : OnDiskCreateDir(c)
    \/ \E c \in CTasks : OnDiskSaveMetadata(c)
    \/ \E c \in CTasks : CreationComplete(c)
    \/ \E c \in CTasks, ok \in BOOLEAN : LoadLocalTimeline(c, ok)
    \/ \E c \in CTasks : ReplacePlaceholder(c)
    \/ \E d \in DTasks, id \in TimelineIds : DeleteRequest(d, id)
    \/ \E d \in DTasks : DeleteSchedule(d)
    \/ \E d \in DTasks : DeleteRemoveDir(d)
    \/ \E d \in DTasks : DeleteRemoveFromMap(d)

DeleteSpec == TenantInit /\ [][DeleteNext]_tenant_vars

----------------------------------------------------------------------------
(* The tenant: the specification of its locks *)

LockInit ==
    /\ NoLocking
    /\ NoLayerMap
    /\ NoLayer
    /\ NoTenant
    /\ NoTenantState
    /\ NoFunctions
    /\ NoTiming

LockNext == \E t \in LockTasks : LockStep(t)

LockSpec == LockInit /\ [][LockNext]_lock_vars

\* Every task that has not come to its end takes its next step at some
\* time: the executor runs every task that is not waiting.
FairLockSpec == LockSpec /\ \A t \in LockTasks : WF_lock_vars(LockStep(t))

----------------------------------------------------------------------------
(* Properties *)

\* The step in which Reader::get of r returns Ok.
Returns(r) == rd[r].pc = "locked" /\ rd'[r].pc = "done"

\* No in-memory layer has been flushed: the historic set holds no layer and
\* the open layer, if any, was never frozen.
NothingFlushed ==
    /\ historic = EmptyHistoric
    /\ IsSome(inmem) => ~Unwrap(inmem).frozen

AcceptedLsns(key, lsn) ==
    {a.lsn : a \in {x \in accepted : x.key = key /\ x.lsn <= lsn}}

\* The i-th largest element of a set of numbers.
NthLargest(S, i) == CHOOSE l \in S : Cardinality({m \in S : m > l}) = i - 1

AcceptedDelta(key, lsn) ==
    (CHOOSE a \in accepted : a.key = key /\ a.lsn = lsn).delta

\* The deltas put for key at LSNs <= lsn, by strictly decreasing LSN.
ExpectedRecords(key, lsn) ==
    [i \in 1..Cardinality(AcceptedLsns(key, lsn)) |->
        AcceptedDelta(key, NthLargest(AcceptedLsns(key, lsn), i))]

\* C1: when get(key, lsn) returns Ok and nothing has been flushed,
\* inmem_records is exactly the deltas successfully put for key at LSNs
\* <= lsn, by strictly decreasing LSN, and historic_path is empty.
C1_GetReturnsPutRecords ==
    [][\A r \in Readers :
        (Returns(r) /\ NothingFlushed) =>
            /\ rd'[r].inmem_records = ExpectedRecords(rd[r].key, rd[r].lsn)
            /\ rd'[r].historic_path = <<>>]_vars

\* A get returned two records of its key while a record of the other key
\* and nothing flushed.
C1_Witness ==
    \E r \in Readers :
        /\ rd[r].pc = "done"
        /\ Len(rd[r].inmem_records) = 2
        /\ NothingFlushed
        /\ \E a \in accepted : a.key # rd[r].key /\ a.lsn <= rd[r].lsn

\* The step in which Reader::get of r is called.
Calls(r) == rd[r].pc = "idle" /\ rd'[r].pc # "idle"

\* C2: get(key, lsn) never returns Ok while the published LSN is below lsn,
\* and a get called with lsn at or below the published LSN does not suspend.
C2_GetOnlyAtIngestedLsn ==
    [][\A r \in Readers :
        /\ Returns(r) => CntValue(cnt') >= rd[r].lsn
        /\ (Calls(r) /\ rd'[r].lsn <= CntValue(cnt)) =>
               (rd'[r].pc = "woken" /\ ~rd'[r].suspended)]_vars

\* C3: a get that suspended and was woken by the writer's put at an LSN
\* >= lsn eventually returns Ok.
C3_WokenGetCompletes ==
    \A r \in Readers :
        (rd[r].pc = "woken" /\ rd[r].suspended) ~> (rd[r].pc = "done")

\* C4: the published last_ingested_lsn never decreases.
C4_LsnNeverDecreases == [][CntValue(cnt') >= CntValue(cnt)]_vars

\* The open in-memory layer holds a record for (key, lsn).
PresentInOpenLayer(key, lsn) ==
    /\ IsSome(inmem)
    /\ ~Unwrap(inmem).frozen
    /\ Unwrap(inmem).by_key[<<key, lsn>>] # NoDelta

\* C5: a put for a (key, lsn) already present in the open in-memory layer
\* returns a Duplicate error, does not advance the published LSN and leaves
\* the records of the layer unchanged.
C5_DuplicatePutReturnsError ==
    [][\A key \in Keys, lsn \in Lsns, delta \in Deltas :
        (Put(key, lsn, delta) /\ PresentInOpenLayer(key, lsn)) =>
            /\ rw' = "put:Err(Duplicate)"
            /\ cnt' = cnt
            /\ IsSome(inmem') /\ Unwrap(inmem').by_key = Unwrap(inmem).by_key]_vars

\* The distinct layers a historic set references.
HistoricLayers(h) == {Unwrap(h[c]) : c \in {x \in Cells : IsSome(h[x])}}

\* The (lsn, delta) of key at LSNs <= lsn that a layer holds.
LayerRecords(l, key, lsn) ==
    {<<x, l.by_key[<<key, x>>]>> :
        x \in {y \in Lsns : y <= lsn /\ l.by_key[<<key, y>>] # NoDelta}}

\* The (lsn, delta) of key that the layers of the reconstruct path hold.
PathRecords(h, key, lsn) ==
    LET path == GetReconstructPath(h, key, lsn) IN
    UNION {LayerRecords(path[i], key, lsn) : i \in 1..Len(path)}

\* What a get(key, lsn) reaches: the in-memory records and the records held
\* by the layers of historic_path.
Coverage(slot, h, key, lsn) ==
    (IF IsSome(slot) THEN LayerRecords(Unwrap(slot), key, lsn) ELSE {})
    \cup PathRecords(h, key, lsn)

\* C6: after a put that hit LayerFull, one historic layer has been added,
\* the open slot is empty, the published LSN is the put's lsn, and the
\* records that the in-memory layer held are reached through historic_path.
C6_LayerFullRotates ==
    [][\A key \in Keys, lsn \in Lsns, delta \in Deltas :
        PutLayerFull(key, lsn, delta) =>
            /\ rw' = "put:Ok"
            /\ Cardinality(HistoricLayers(historic')) =
                   Cardinality(HistoricLayers(historic)) + 1
            /\ inmem' = None
            /\ CntValue(cnt') = lsn
            /\ \A k \in Keys :
                   Coverage(inmem, historic, k, lsn)
                       \subseteq PathRecords(historic', k, lsn)]_vars

\* C7: after a force_flush with an open layer, the published state has an
\* empty open slot and a historic set that also references the frozen
\* layer; with no open layer force_flush changes nothing.
C7_ForceFlushPublishes ==
    [][/\ (ForceFlushOpen /\ rw' = "force_flush:Ok") =>
              /\ inmem' = None
              /\ HistoricLayers(historic') =
                     HistoricLayers(historic) \cup {Freeze(Unwrap(inmem))}
       /\ ForceFlushNothing => UNCHANGED <<cnt, inmem, historic>>]_vars

C11_WriterTryLockSucceeds ==
    [][(Alive /\ rw' # rw) => (TryLockOk /\ rw' # "panic:expect")]_vars

----------------------------------------------------------------------------
(* Properties of the layer handle *)

\* A ResidentLayer is alive: a caller holds a strong reference to a
\* DownloadedLayer.
ResidentLayerAlive ==
    \E d \in Objs : downloaded[d].st = "alive" /\ downloaded[d].refs > 0

\* C12: while a ResidentLayer of the layer is alive, no eviction task
\* removes the local file.
C12_NoEvictionWhileResident ==
    [][\A e \in evictions :
        (EvictionRun(e) /\ file' # file) => ~ResidentLayerAlive]_layer_vars

\* The step in which get_or_download of t returns Ok.
ReturnsOk(t) ==
    /\ gd[t].pc # "idle" /\ gd'[t].pc = "idle"
    /\ gd'[t].res \in {"Ok:existing", "Ok:found", "Ok:downloaded"}

\* The step in which get_or_download of t, past the take of the slot, fails
\* or is cancelled.
FailsAfterTake(t) ==
    /\ \/ gd[t].pc \in {"taken", "downloading"}
       \/ gd[t].pc = "locked" /\ inner' # inner
    /\ gd'[t].pc = "idle"
    /\ gd'[t].res \notin {"Ok:existing", "Ok:found", "Ok:downloaded"}

\* C13: the drop of a handle on which garbage_collect() was called leaves
\* no local file and has scheduled the remote deletion exactly once,
\* whatever the residence of the layer was (timeline and remote client
\* being there, the local path not being a directory).
C13_GarbageCollectOnDrop ==
    [][(LayerEDrop /\ wanted_garbage_collected /\ have_remote_client
            /\ timeline_alive /\ file # NotFile)
        => (file' = None /\ deletions' = 1)]_layer_vars

\* C14: an evict on a handle with a non-empty slot sets wanted_evicted,
\* leaves the slot WantedEvicted, and returns true exactly when no strong
\* reference to the DownloadedLayer remains.
C14_EvictDowngrades ==
    [][(Evict /\ IsSome(inner)) =>
        /\ wanted_evicted'
        /\ IsSome(inner') /\ Unwrap(inner').kind = "WantedEvicted"
        /\ (EvictHere /\ downloaded'[Unwrap(inner).d].st # "alive")
             <=> (StrongCount(inner', downloaded', Unwrap(inner).d) = 0)]_layer_vars

\* C15: when get_or_download returns Ok the slot refers to the returned
\* DownloadedLayer, which is alive, and when that object is new the local
\* file is a regular file of length desc.file_size.
C15_OkMeansResidentAndGoodFile ==
    [][\A t \in GTasks :
        ReturnsOk(t) =>
            /\ IsSome(inner') /\ Unwrap(inner').d = gd'[t].d
            /\ downloaded'[gd'[t].d].st = "alive"
            /\ gd'[t].res # "Ok:existing" => file' = RegularFile(FileSize)]_layer_vars

\* A layer written here was evicted and downloaded again: the file is back
\* with its recorded length.
C15_Witness ==
    /\ downloaded[0].st = "dead"
    /\ \E t \in GTasks : gd[t].res = "Ok:downloaded"
    /\ file = RegularFile(FileSize)

\* C16: a get_or_download that fails or is cancelled after the take of the
\* slot leaves the slot empty, the mutex free and the handle alive.
C16_FailedDownloadLeavesEmpty ==
    [][\A t \in GTasks :
        FailsAfterTake(t) =>
            inner' = None /\ inner_guard' = "free" /\ ~layer_dropped']_layer_vars

\* A download ended with a file of the wrong length after a slot that held
\* a weak pointer was taken.
C16_Witness ==
    /\ \E t \in GTasks : gd[t].res = "Err:post-condition for downloading"
    /\ downloaded[0].st = "dead"
    /\ inner = None

\* C17: get_or_download on a WantedEvicted slot whose weak pointer upgrades
\* returns the existing object without a download and leaves wanted_evicted
\* false.
C17_ReentryClearsWantedEvicted ==
    [][\A t \in GTasks, mode \in Modes \ {"Get"} :
        (GCheck(t, mode) /\ IsSome(SlotGet(inner, downloaded))
            /\ Unwrap(inner).kind = "WantedEvicted")
        => (gd'[t].res = "Ok:existing" /\ version' = version
            /\ ~wanted_evicted')]_layer_vars

\* C18: get_or_download with download behaviour Error, treat-error-as-warn
\* off and no live DownloadedLayer returns an error, starts no download and
\* leaves the slot, version and wanted_evicted as they were.
C18_ErrorBehaviourRefuses ==
    [][\A t \in GTasks :
        (GCheck(t, "Error") /\ ~treat_error_as_warn
            /\ ~IsSome(SlotGet(inner, downloaded)))
        => /\ gd'[t].pc = "idle" /\ gd'[t].res = "Err:refused"
           /\ UNCHANGED <<inner, version, wanted_evicted, downloads>>]_layer_vars

\* A call was refused on a handle whose slot holds a dead weak pointer and
\* whose eviction is wanted.
C18_Witness ==
    /\ \E t \in GTasks : gd[t].res = "Err:refused"
    /\ IsSome(inner) /\ wanted_evicted /\ ~treat_error_as_warn

----------------------------------------------------------------------------
(* The tenant: garbage collection next to the creation of branches *)

\* An active tenant with the timeline t1, which has no ancestor.
GcInit ==
    /\ tenant_state = "Active"
    /\ timelines = [id \in TimelineIds |->
                       IF id = "t1" THEN "Active" ELSE "absent"]
    /\ timeline_dir = [id \in TimelineIds |->
                          IF id = "t1" THEN WithMetadata(NoAncestor, 0, 0)
                          ELSE NoDir]
    /\ uninit_mark = [id \in TimelineIds |-> FALSE]
    /\ creating = [c \in CTasks |-> IdleCreate]
    /\ tl_ancestor = [id \in TimelineIds |-> Root]
    /\ gc_cs = "free"
    /\ gc_info = [id \in TimelineIds |-> NoGcInfo]
    /\ latest_gc_cutoff = [id \in TimelineIds |-> 0]
    /\ gc = IdleGc
    /\ deleting = [d \in DTasks |-> IdleDelete]
    /\ delete_lock = [id \in TimelineIds |-> "free"]
    /\ NoLayerMap
    /\ NoLayer
    /\ NoTenantState
    /\ NoFunctions
    /\ NoTiming
    /\ NoLocking

GcNext ==
    \/ \E c \in CTasks, id \in TimelineIds, anc \in Ancestors,
          start_lsn \in BranchLsns :
          CreateTimeline(c, id, anc, start_lsn)
    \/ \E c \in CTasks : StartInsertPlaceholder(c)
    \/ \E c \in CTasks : StartCreateUninitMark(c)
    \/ \E c \in CTasks : BranchValidate(c)
    \/ \E c \in CTasks : OnDiskCreateDir(c)
    \/ \E c \in CTasks : OnDiskSaveMetadata(c)
    \/ \E c \in CTasks : OnDiskFails(c)
    \/ \E c \in CTasks : CreationFailedRemoveDir(c)
    \/ \E c \in CTasks : CreationFailedRemoveMark(c)
    \/ \E c \in CTasks : CreationFailedRemovePlaceholder(c)
    \/ \E c \in CTasks : CreationComplete(c)
    \/ \E c \in CTasks, ok \in BOOLEAN : LoadLocalTimeline(c, ok)
    \/ \E c \in CTasks : ReplacePlaceholder(c)
    \/ \E target \in TimelineIds : GcRefreshCollect(target)
    \/ \E horizon_cutoff \in BranchLsns, pitr_cutoff \in BranchLsns,
          has_cutoff \in BOOLEAN :
          GcUpdateInfo(horizon_cutoff, pitr_cutoff, has_cutoff)
    \/ GcTimeline

GcSpec == GcInit /\ [][GcNext]_tenant_vars

----------------------------------------------------------------------------
(* The tenant: the specification of its state *)

\* The tenant as spawn_load or spawn_attach has built it.
StateInit ==
    /\ state \in {"Loading", "Attaching"}
    /\ startup = "running"
    /\ stoppers = [s \in StopCallers |-> IdleCall]
    /\ breakers = [b \in BrokenCallers |-> IdleCall]
    /\ testing \in BOOLEAN
    /\ timeline_state \in {"Loading", "Broken"}
    /\ NoLayerMap
    /\ NoLayer
    /\ NoTenant
    /\ NoFunctions
    /\ NoTiming
    /\ NoLocking

StateNext ==
    \/ SpawnFails
    \/ ActivateBegins
    \/ ActivateEnds
    \/ \E s \in StopCallers : SetStoppingCalled(s)
    \/ \E s \in StopCallers : SetStoppingWakes(s)
    \/ \E s \in StopCallers : SetStoppingTransitions(s)
    \/ \E s \in StopCallers : SetStoppingTimelines(s)
    \/ \E b \in BrokenCallers : SetBrokenCalled(b)
    \/ \E b \in BrokenCallers : SetBrokenWakes(b)
    \/ \E b \in BrokenCallers : SetBrokenTransitions(b)

StateSpec == StateInit /\ [][StateNext]_state_vars

----------------------------------------------------------------------------
(* tree_sort_timelines and merge_local_remote_metadata: specifications *)

SortInit ==
    /\ sort_input \in SortInputs
    /\ sort_result = NoSortResult
    /\ NoMerge
    /\ NoLayerMap
    /\ NoLayer
    /\ NoTenant
    /\ NoTenantState
    /\ NoTiming
    /\ NoLocking

SortNext == TreeSortTimelines

SortSpec == SortInit /\ [][SortNext]_sort_vars

MergeInit ==
    /\ merge_input \in [local : Metadatas, remote : Metadatas]
    /\ merge_result = NoMergeResult
    /\ NoSort
    /\ NoLayerMap
    /\ NoLayer
    /\ NoTenant
    /\ NoTenantState
    /\ NoTiming
    /\ NoLocking

MergeNext == MergeLocalRemoteMetadata

MergeSpec == MergeInit /\ [][MergeNext]_merge_vars

----------------------------------------------------------------------------
(* The clock: its specification *)

\* A clock with no pending timer: a new one, or one that has handed out
\* all but the last two nonces and has returned every event.
TimeInit ==
    /\ current_time = 0
    /\ timers = {}
    /\ nonce \in {ZeroNonce, [hi |-> NonceHalf - 1, lo |-> NonceHalf - 2]}
    /\ overflow_checks \in BOOLEAN
    /\ scheduled = 0
    /\ step_result = NoStepResult
    /\ NoLayerMap
    /\ NoLayer
    /\ NoTenant
    /\ NoTenantState
    /\ NoFunctions
    /\ NoLocking

TimeNext ==
    \/ \E time \in Times : Schedule(time)
    \/ Step

TimeSpec == TimeInit /\ [][TimeNext]_time_vars

----------------------------------------------------------------------------
(* Properties of the tenant *)

\* Tenant::load returns, with Ok or with an error.
LoadReturns ==
    tenant_state = "Loading" /\ tenant_state' \in {"Active", "Broken"}

\* The timeline directory with its metadata file, no uninit mark, and a
\* timeline in the map that is not a placeholder.
FullyMaterialized(id) ==
    /\ timeline_dir[id].exists
    /\ timeline_dir[id].metadata
    /\ ~uninit_mark[id]
    /\ timelines[id] \notin {"absent", "Creating"}

AbsentFromDiskAndMap(id) ==
    /\ ~timeline_dir[id].exists
    /\ ~uninit_mark[id]
    /\ timelines[id] = "absent"

\* C19: when the tenant load that follows a stop of the process returns,
\* every timeline id is either fully materialized (directory with
\* metadata, no uninit mark, entry in the map) or absent from disk and
\* from the map.
C19_LoadLeavesMaterializedOrAbsent ==
    [][LoadReturns =>
          \A id \in TimelineIds :
              (FullyMaterialized(id) \/ AbsentFromDiskAndMap(id))']_tenant_vars

\* C20: in every state, for every timeline id in the timelines map, either
\* the entry is in state Creating and the uninit mark of the id exists, or
\* the entry is in another state and no uninit mark of the id exists.
C20_PlaceholderIffUninitMark ==
    \A id \in TimelineIds :
        timelines[id] # "absent" =>
            \/ timelines[id] = "Creating" /\ uninit_mark[id]
            \/ timelines[id] # "Creating" /\ ~uninit_mark[id]

\* The errors of create_timeline_task.
CreateErrors ==
    {"Err:inactive tenant", "Err:AlreadyExists", "Err:ancestor not found",
     "Err:invalid branch start lsn", "Err:create", "Err:load"}

\* Task c returns an error from a creation that had inserted its
\* placeholder.
FailsAfterInsert(c) ==
    /\ creating[c].pc \notin {"idle", "checked"}
    /\ creating'[c].pc = "idle"
    /\ creating'[c].res \in CreateErrors

\* C21: when create_timeline returns an error from a creation that had
\* inserted its placeholder, the timeline directory, the uninit mark and
\* the entry of that id in the map are all gone.
C21_FailedCreationLeavesNothing ==
    [][\A c \in CTasks :
          FailsAfterInsert(c) =>
              /\ timelines'[creating[c].id] = "absent"
              /\ ~uninit_mark'[creating[c].id]
              /\ ~timeline_dir'[creating[c].id].exists]_tenant_vars

\* Task c returns AlreadyExists in this step.
ReturnsAlreadyExists(c) ==
    /\ creating'[c] # creating[c]
    /\ creating'[c].res = "Err:AlreadyExists"

\* C22: a creation is not started for an id that has an uninit mark or a
\* timeline directory, no placeholder is inserted over an entry of the map,
\* a start that finds the entry returns AlreadyExists, and a call that
\* returns AlreadyExists has changed neither the map nor the files: it
\* returns before its placeholder is inserted, in a step that changes
\* nothing.
C22_AlreadyExistsChangesNothing ==
    [][\A c \in CTasks :
          /\ (creating[c].pc = "idle" /\ creating'[c].pc = "checked") =>
                 /\ ~uninit_mark[creating'[c].id]
                 /\ ~timeline_dir[creating'[c].id].exists
          /\ (creating[c].pc = "checked" /\ creating'[c].pc = "inserted") =>
                 timelines[creating[c].id] = "absent"
          /\ (/\ creating[c].pc = "checked"
              /\ creating'[c].pc = "idle"
              /\ tenant_state' = "Active") =>
                 /\ timelines[creating[c].id] # "absent"
                 /\ creating'[c].res = "Err:AlreadyExists"
          /\ ReturnsAlreadyExists(c) =>
                 /\ creating[c].pc \in {"idle", "checked"}
                 /\ UNCHANGED <<timelines, uninit_mark, timeline_dir>>]_tenant_vars

\* C26: a timeline leaves the map only when no timeline of the map names it
\* as ancestor: a deletion request for a timeline with children returns
\* HasChildren and changes nothing, and delete_timeline never finds children
\* of the timeline it is about to remove (it never panics).
C26_RemovedOnlyWithoutChildren ==
    /\ [][\A d \in DTasks :
            (deleting[d].pc = "idle" /\ deleting'[d].pc = "idle"
             /\ deleting'[d].res = "Err:HasChildren"
             /\ deleting'[d] # deleting[d])
            => UNCHANGED <<timelines, timeline_dir, uninit_mark>>]_tenant_vars
    /\ [](\A d \in DTasks :
             deleting[d].res # "panic:Timeline grew children")

\* The task c is creating a branch whose start LSN passed the checks and
\* whose timeline is not yet in the map with its ancestor.
BranchInFlight(c) ==
    /\ creating[c].ancestor # NoAncestor
    /\ creating[c].pc \in {"validated", "dir", "ondisk", "complete", "loaded"}

\* C23: while a branch is being created, from the check of its start LSN
\* until its timeline is in the map with its ancestor, no refresh of the GC
\* info of the source stores a cutoff above the start LSN without the start
\* LSN among the retained branch points.
C23_GcKeepsBranchStart ==
    [][\A c \in CTasks :
          (/\ BranchInFlight(c)
           /\ gc.pc = "collected"
           /\ gc'.pc = "refreshed"
           /\ gc.target = creating[c].ancestor)
          => ~(/\ PlannedCutoff(gc_info'[gc.target]) > creating[c].start_lsn
               /\ creating[c].start_lsn
                      \notin gc_info'[gc.target].retain_lsns)]_tenant_vars

\* The task c takes the step of BranchValidate with its ancestor in the map.
ChecksBranchPoint(c) ==
    /\ creating[c].pc = "marked"
    /\ creating[c].ancestor # NoAncestor
    /\ \/ creating'[c].pc = "validated"
       \/ creating'[c].res = "Err:invalid branch start lsn"

C25_RetainedAreBranchPoints ==
    [][(gc.pc = "refreshed" /\ gc'.pc = "idle")
       => gc_info'[gc.target].retain_lsns
              = {tl_ancestor'[child].lsn :
                    child \in {id \in TimelineIds :
                                  /\ timelines'[id] # "absent"
                                  /\ tl_ancestor'[id].id = gc.target}}
      ]_tenant_vars

\* C27: the state becomes Activating(Loading) only from Loading,
\* Activating(Attaching) only from Attaching, Active only from Activating,
\* and Stopping only from Active; a set_stopping gets to its transition
\* only when the activation is over.
C27_ActivationPathAndStopping ==
    /\ [][state' # state =>
             /\ state' = "Activating(Loading)" => state = "Loading"
             /\ state' = "Activating(Attaching)" => state = "Attaching"
             /\ state' = "Active" => state \in ActivatingStates
             /\ state' = "Stopping" => state = "Active"]_state_vars
    /\ [](\A s \in StopCallers :
             stoppers[s].pc = "woken"
             => state \in {"Active", "Broken", "Stopping"})

\* A set_stopping that was called before the tenant was Active has set it
\* to Stopping.
C27_Witness ==
    \E s \in StopCallers :
        /\ stoppers[s].res = "Ok"
        /\ stoppers[s].pc = "idle"
        /\ stoppers[s].called_in \in {"Loading", "Attaching"} \cup ActivatingStates
        /\ state = "Stopping"

\* The caller b of set_broken takes its step of send_modify.
SetBrokenReturns(b) == breakers[b].pc = "woken" /\ breakers'[b].pc = "idle"

\* C28: the state becomes Broken only in the send_modify of a call of
\* set_broken, and every call of set_broken leaves the tenant Broken.
C28_BrokenOnlyBySetBroken ==
    /\ [][(state' = "Broken" /\ state # "Broken")
          => \E b \in BrokenCallers : SetBrokenReturns(b)]_state_vars
    /\ [][\A b \in BrokenCallers :
             SetBrokenReturns(b) => state' = "Broken"]_state_vars

\* The ids of the timelines of a sequence.
IdsOf(order) == {order[i].id : i \in DOMAIN order}

\* The k-th ancestor of the timeline id in the input, "missing" when the
\* chain leaves the input.
RECURSIVE NthAncestor(_, _, _)
NthAncestor(input, id, k) ==
    IF k = 0 THEN id
    ELSE IF id \notin IdsOf(input) THEN "missing"
    ELSE LET timeline == CHOOSE t \in {input[i] : i \in DOMAIN input} :
                             t.id = id
         IN  NthAncestor(input, timeline.ancestor, k - 1)

\* A timeline of the input names an ancestor that is not in the input.
AncestorMissing(input) ==
    \E i \in DOMAIN input :
        /\ input[i].ancestor # NoAncestor
        /\ input[i].ancestor \notin IdsOf(input)

\* A timeline of the input is its own ancestor after some steps.
AncestorCycle(input) ==
    \E i \in DOMAIN input, k \in 1..Len(input) :
        NthAncestor(input, input[i].id, k) = input[i].id

\* C29: tree_sort_timelines returns an error or an order of its input in
\* which every timeline with an ancestor comes after that ancestor; it
\* returns the error exactly when an ancestor is missing from the input or
\* the ancestors form a cycle.
C29_TreeSortOrderOrError ==
    sort_result.done =>
        /\ sort_result.ok =>
             /\ {sort_result.order[i] : i \in DOMAIN sort_result.order}
                    = {sort_input[i] : i \in DOMAIN sort_input}
             /\ Len(sort_result.order) = Len(sort_input)
             /\ \A j \in DOMAIN sort_result.order :
                    sort_result.order[j].ancestor # NoAncestor
                    => \E i \in 1..(j - 1) :
                           sort_result.order[i].id
                               = sort_result.order[j].ancestor
        /\ ~sort_result.ok
             <=> AncestorMissing(sort_input) \/ AncestorCycle(sort_input)

\* A chain of three timelines, given with the children first, was sorted.
C29_Witness ==
    /\ sort_result.done
    /\ sort_result.ok
    /\ Len(sort_input) = 3
    /\ sort_input[1].ancestor = sort_input[2].id
    /\ sort_input[2].ancestor = sort_input[3].id

\* Both metadata are present and merge_local_remote_metadata has returned.
MergedBoth ==
    /\ merge_input.local.present
    /\ merge_input.remote.present
    /\ merge_result.res # "none"

ConsistentLsnCmp ==
    Cmp(merge_input.local.disk_consistent_lsn,
        merge_input.remote.disk_consistent_lsn)

GcCutoffLsnCmp ==
    Cmp(merge_input.local.latest_gc_cutoff_lsn,
        merge_input.remote.latest_gc_cutoff_lsn)

\* C30, as stated: with both metadata present the local one is taken only
\* when both comparisons are Equal or Greater and at most one of them is
\* Greater; every other combination fails.
C30_AsStated ==
    MergedBoth =>
        IF /\ ConsistentLsnCmp \in {"Equal", "Greater"}
           /\ GcCutoffLsnCmp \in {"Equal", "Greater"}
           /\ ~(ConsistentLsnCmp = "Greater" /\ GcCutoffLsnCmp = "Greater")
        THEN merge_result = [res |-> "Ok", picked |-> "local"]
        ELSE merge_result.res = "Err:remote ahead of local"

\* C30, amended: with both metadata present the local one is taken exactly
\* when both comparisons are Equal or Greater, both Greater included; every
\* other combination fails.
C30_LocalTakenIffNotBehind ==
    MergedBoth =>
        IF /\ ConsistentLsnCmp \in {"Equal", "Greater"}
           /\ GcCutoffLsnCmp \in {"Equal", "Greater"}
        THEN merge_result = [res |-> "Ok", picked |-> "local"]
        ELSE merge_result.res = "Err:remote ahead of local"

\* The local metadata is ahead of the remote in both LSNs and was taken.
C30_Witness ==
    /\ MergedBoth
    /\ ConsistentLsnCmp = "Greater"
    /\ GcCutoffLsnCmp = "Greater"
    /\ merge_result = [res |-> "Ok", picked |-> "local"]

\* C31: merge_local_remote_metadata never returns a metadata that is behind
\* the one it discards in disk_consistent_lsn or in latest_gc_cutoff_lsn;
\* with one metadata present it returns that one, and with none it fails.
C31_ChosenNeverBehind ==
    merge_result.res # "none" =>
        LET local == merge_input.local
            remote == merge_input.remote
        IN  /\ (local.present /\ remote.present /\ merge_result.res = "Ok")
                => /\ merge_result.picked = "local"
                   /\ local.disk_consistent_lsn
                          >= remote.disk_consistent_lsn
                   /\ local.latest_gc_cutoff_lsn
                          >= remote.latest_gc_cutoff_lsn
            /\ (local.present /\ ~remote.present)
                => merge_result = [res |-> "Ok", picked |-> "local"]
            /\ (~local.present /\ remote.present)
                => merge_result = [res |-> "Ok", picked |-> "remote"]
            /\ (~local.present /\ ~remote.present)
                => /\ merge_result.res \notin {"none", "Ok"}
                   /\ merge_result.picked = "none"

\* The local metadata has more on disk than the remote, the same GC cutoff,
\* and was taken.
C31_Witness ==
    /\ MergedBoth
    /\ ConsistentLsnCmp = "Greater"
    /\ GcCutoffLsnCmp = "Equal"
    /\ merge_result.picked = "local"

\* The pending timer that was scheduled for the smallest time, the earliest
\* scheduled one among those.
FirstPending ==
    CHOOSE p \in timers :
        \A q \in timers \ {p} :
            p.time < q.time \/ (p.time = q.time /\ p.seq < q.seq)

\* A call of step has returned.
StepReturns ==
    /\ step_result' # step_result
    /\ step_result'.kind \in {"None", "Some"}

----------------------------------------------------------------------------
(* Properties of the spawned eviction task *)

\* The step in which the eviction task e, holding the mutex of inner, runs
\* to its end.
EvictionTaskRuns(e) == e \in evictions /\ e.pc = "locked" /\ EvictionRun(e)

\* C33: the spawned eviction task removes the local file only if the version
\* is the one it was scheduled with and wanted_evicted is still set; in
\* every other case it changes neither the local file nor the slot.
C33_StaleEvictionIsNoOp ==
    [][\A e \in evictions :
        EvictionTaskRuns(e) =>
            /\ file' # file => (e.version = version /\ wanted_evicted)
            /\ (e.version # version \/ ~wanted_evicted)
                   => (file' = file /\ inner' = inner)]_layer_vars

\* C34: an eviction task that holds the mutex of inner and finds the version
\* it was scheduled with never finds the slot Resident: the assertion on the
\* taken value holds.
C34_TakenSlotNeverResident ==
    \A e \in evictions :
        (e.pc = "locked" /\ e.version = version)
            => ~(IsSome(inner) /\ Unwrap(inner).kind = "Resident")

----------------------------------------------------------------------------
(* Properties of the tenant state under concurrent callers *)

\* activate is between its two send_modify.
BetweenStateUpdates == startup = "activating"

\* C35: between the two state updates of activate no other task changes the
\* state, and at the second update the state is still Activating: the
\* assertion holds and the tenant becomes Active.
C35_ActivateOwnsState ==
    /\ [][(BetweenStateUpdates /\ state' # state) => ActivateEnds]_state_vars
    /\ [][(BetweenStateUpdates /\ ActivateEnds)
             => /\ state \in ActivatingStates
                /\ state' = "Active"
                /\ startup' = "done"]_state_vars

\* The activation has ended while a set_stopping and a set_broken that were
\* called during it are still waiting or have just been let through.
C35_Witness ==
    /\ state = "Active" /\ startup = "done"
    /\ \E s \in StopCallers : /\ stoppers[s].called_in \in ActivatingStates
                              /\ stoppers[s].pc \in {"waiting", "woken"}
    /\ \E b \in BrokenCallers : /\ breakers[b].called_in \in ActivatingStates
                                /\ breakers[b].pc \in {"waiting", "woken"}

\* The caller s of set_stopping takes its step of send_if_modified.
SetStoppingDecides(s) == stoppers[s].pc = "woken" /\ stoppers'[s].pc # "woken"

\* C36: a call of set_stopping goes on to return Ok exactly when it has
\* taken the tenant from Active to Stopping; every other call returns
\* AlreadyStopping, or Broken exactly when the tenant is Broken, and leaves
\* the state of the tenant and of its timelines as they were.  No two
\* callers are winners, and the tenant is never Active again.
C36_OneStoppingWinner ==
    /\ [][\A s \in StopCallers :
            SetStoppingDecides(s) =>
               /\ stoppers'[s].pc = "stopping"
                    <=> (state = "Active" /\ state' = "Stopping")
               /\ stoppers'[s].pc # "stopping" =>
                    /\ stoppers'[s].pc = "idle"
                    /\ stoppers'[s].res \in {"Err:AlreadyStopping", "Err:Broken"}
                    /\ stoppers'[s].res = "Err:Broken" <=> state = "Broken"
                    /\ state' = state
                    /\ timeline_state' = timeline_state]_state_vars
    /\ [][\A s \in StopCallers :
            (stoppers'[s].res = "Ok" /\ stoppers[s].res # "Ok")
                => stoppers[s].pc = "stopping"]_state_vars
    /\ [][(state \in {"Stopping", "Broken"})
             => state' \in TenantStates \ {"Active"}]_state_vars
    /\ [](Cardinality({s \in StopCallers : stoppers[s].pc = "stopping"}) <= 1)

\* Two calls of set_stopping on the Active tenant: one has returned Ok and
\* the timeline is Stopping, the other has returned AlreadyStopping.
C36_Witness ==
    \E s, other \in StopCallers :
        /\ stoppers[s].res = "Ok"
        /\ stoppers[other].res = "Err:AlreadyStopping"
        /\ stoppers[other].called_in = "Active"
        /\ stoppers[s].called_in = "Active"
        /\ timeline_state = "Stopping"

\* C39: a tenant that is Active, Stopping or Broken is never again Loading,
\* Attaching or Activating, and a Broken tenant stays Broken.
C39_NoReactivation ==
    [][/\ state \in {"Active", "Stopping", "Broken"}
            => state' \in {"Active", "Stopping", "Broken"}
       /\ state = "Broken" => state' = "Broken"]_state_vars

\* On a Broken tenant a set_stopping has returned Broken and a set_broken
\* that was called on it has returned.
C39_Witness ==
    /\ state = "Broken"
    /\ \E s \in StopCallers : stoppers[s].res = "Err:Broken"
    /\ \E b \in BrokenCallers : /\ breakers[b].res = "Ok"
                                /\ breakers[b].called_in = "Broken"
                                /\ breakers[b].pc = "idle"

----------------------------------------------------------------------------
(* Properties of concurrent creations and deletions *)

\* The task c has put its placeholder into the map and has not returned.
OwnsPlaceholder(c) == creating[c].pc \notin {"idle", "checked"}

\* The task c takes a step of create_timeline, and nothing else happens.
CreateStep(c) ==
    /\ creating'[c] # creating[c]
    /\ \A other \in CTasks \ {c} : creating'[other] = creating[other]
    /\ tenant_state' = tenant_state

\* C37: at any time one task at most owns the placeholder of a timeline id
\* and is past start_creating_timeline.  While it does, every step of
\* another creation of that id leaves the entry of the map, the uninit
\* mark and the timeline directory of the id as they are, and that
\* creation ends with AlreadyExists.
C37_OneCreatorPerId ==
    /\ [](\A c, w \in CTasks :
             (c # w /\ OwnsPlaceholder(c) /\ OwnsPlaceholder(w))
                 => creating[c].id # creating[w].id)
    /\ [][\A c, w \in CTasks :
            (/\ c # w /\ OwnsPlaceholder(w) /\ CreateStep(c)
             /\ creating[w].id \in {creating[c].id, creating'[c].id})
            => /\ timelines' = timelines
               /\ uninit_mark' = uninit_mark
               /\ timeline_dir' = timeline_dir
               /\ creating'[c].pc \in {"idle", "checked"}
               /\ creating[c].pc = "checked"
                    => creating'[c] = [IdleCreate EXCEPT
                                          !.res = "Err:AlreadyExists"]
          ]_tenant_vars

\* The deletion of d is in progress: its request was accepted, and neither
\* the request nor the task it spawned has come to its end.
DeletionInProgress(d) ==
    deleting[d].pc \in {"accepted", "scheduled", "dir_removed"}

\* The step in which a deletion request of d for the timeline id returns
\* at once.
DeleteRejected(d, id) ==
    /\ DeleteRequest(d, id)
    /\ deleting'[d].pc = "idle"

\* C38: no two deletions of one timeline are in progress at the same time;
\* a request for a timeline whose delete_lock is held returns 'timeline
\* deletion is already in progress' and one for a timeline in state
\* Creating is rejected, both without a change of the timeline.
C38_OneDeletionPerTimeline ==
    /\ [](\A d, other \in DTasks :
             (d # other /\ DeletionInProgress(d) /\ DeletionInProgress(other))
                 => deleting[d].id # deleting[other].id)
    /\ [][\A d \in DTasks, id \in TimelineIds :
            (DeleteRequest(d, id) /\ ChildrenOf(id) = {}
                /\ timelines[id] \notin {"absent", "Creating"}
                /\ delete_lock[id] # "free")
            => /\ deleting'[d].res =
                      "Err:timeline deletion is already in progress"
               /\ DeleteRejected(d, id)
               /\ UNCHANGED <<timelines, timeline_dir, delete_lock>>
          ]_tenant_vars
    /\ [][\A d \in DTasks, id \in TimelineIds :
            (DeleteRequest(d, id) /\ timelines[id] = "Creating")
            => /\ DeleteRejected(d, id)
               /\ UNCHANGED <<timelines, timeline_dir, delete_lock>>
          ]_tenant_vars

----------------------------------------------------------------------------
(* Properties of the locks of the tenant *)

\* The task t acquires the lock l in this step.
Acquires(t, l) == lock_holder[l] # t /\ lock_holder'[l] = t

HeldBy(t) == {l \in Locks : lock_holder[l] = t}

\* An order of the locks: gc_cs before the lock of the map, the locks of a
\* timeline after it.
LockRank(l) ==
    CASE l = "gc_cs" -> 0
      [] l = "timelines" -> 1
      [] l = "delete_lock" -> 2
      [] l = "timeline.state" -> 3
      [] l = "state" -> 4
      [] l = "layer_removal_cs" -> 5

\* C32: gc_cs is never acquired by a task that holds the lock of the map;
\* every task acquires its locks in the one order of LockRank; and the
\* tasks of GC refresh, branch creation, creation, deletion, activation and
\* set_stopping all come to their end, whatever their interleaving: none
\* waits for a lock forever.
C32_LockOrderAndNoDeadlock ==
    /\ [][\A t \in LockTasks :
            Acquires(t, "gc_cs") => lock_holder["timelines"] # t]_lock_vars
    /\ [][\A t \in LockTasks, l \in Locks :
            Acquires(t, l)
                => \A held \in HeldBy(t) : LockRank(held) < LockRank(l)
          ]_lock_vars
    /\ <>(\A t \in LockTasks : LockTaskDone(t))

\* The branch creation waits for gc_cs, which the GC refresh holds while it
\* waits for the lock of the map, which the deletion holds; set_stopping
\* waits for the activation.
C32_Witness ==
    /\ lock_holder["gc_cs"] = "gc"
    /\ lock_holder["timelines"] = "delete"
    /\ ~LockTaskDone("gc") /\ NextOp("gc") = Lock("timelines")
    /\ ~LockTaskDone("branch") /\ NextOp("branch") = Lock("gc_cs")
    /\ lock_pc["stop"] = 0 /\ ~TenantIsActive

====
